---- MODULE Spec2Model ----
(***************************************************************************)
(* Model of netlist_to_vhdl.py (KicadFPGA): the name-encoded type decoder  *)
(* (Port.update_from_name), the width evaluator (parse_portsize_part) and  *)
(* generate_code's builder, net consolidation, dependency inference and    *)
(* separator passes.                                                       *)
(*                                                                         *)
(* Python strings are sequences of one-character strings, so that regular  *)
(* expressions, startswith, split, replace and str()/int() are computed    *)
(* as the code computes them.                                              *)
(***************************************************************************)
EXTENDS Integers, Sequences, FiniteSets, TLC

VARIABLES
    \* ---- generate_code
    pc,             \* the loop generate_code is in, "done" after the last
                    \* pass, "raised" when an exception left it
    nl_libparts,    \* nl.libparts
    nl_components,  \* nl.components
    nl_nets,        \* nl.nets, as far as the net loop has read it
    idx,            \* position of the running loop in its list
    generic_list, port_list, constant_list, signal_list,
    component_list, instance_list, library_list,
    direct_connects,
    port_heap,      \* the Port objects of definitions and instances
    name, skip, signal,   \* locals of the net loop body
    target_writes,  \* per instance port, how many times port.target was
                    \* assigned (history, not program state)
    \* ---- decoder harness (DecodeSpec): one Port being decoded
    dpc,            \* "start" | "decoded" | "redecoded" | "raised"
    dname,          \* the name the port was constructed with
    dgens,          \* generic_list argument
    deval,          \* do_eval argument
    dport,          \* the Port object
    \* ---- evaluator harness (EvalSpec): one call of parse_portsize_part
    epc,            \* "start" | "parsed" | "raised"
    etokens,        \* the width expression, token by token
    esize,          \* size_part argument, the tokens joined
    egens,          \* generic_list argument
    eresult,        \* the value returned
    \* ---- alignment harness (AlignSpec): one call of align_on_pipe
    apc,            \* "start" | "aligned"
    adoc,           \* doc argument
    aout,           \* the text returned
    \* ---- two runs on one document (RerunSpec)
    run,            \* 0: a single run | 1: the first run | 2: the second
    rnets,          \* nl.nets of the document both runs read
    first,          \* what the first run handed to the template
    \* ---- property harness (OverrideSpec): the properties of one instance
    opc,            \* "start" | "resolved" | "raised"
    otokens,        \* name and value of every property, token by token
    oprops          \* component.properties

pvars == <<pc, nl_libparts, nl_components, nl_nets, idx, generic_list,
           port_list, constant_list, signal_list, component_list,
           instance_list, library_list, direct_connects, port_heap, name, skip,
           signal,
           target_writes>>

dvars == <<dpc, dname, dgens, deval, dport>>

evars == <<epc, etokens, esize, egens, eresult>>

avars == <<apc, adoc, aout>>

rvars == <<run, rnets, first>>

ovars == <<opc, otokens, oprops>>

\* the harnesses' variables, which generate_code leaves alone
hvars == <<dvars, evars, avars, rvars, ovars>>

vars == <<pvars, hvars>>

(***************************************************************************)
(* Bounds of the enumerated inputs.                                        *)
(***************************************************************************)
MaxBound == 3       \* largest range bound H, L enumerated in x(H:L)
MaxNeg == 1         \* range bounds go down to -MaxNeg
MaxNets == 2        \* nets of the document
MaxNodes == 2       \* nodes of the document, over all its nets
MaxLines == 3       \* lines of the text handed to align_on_pipe

(***************************************************************************)
(* Python str helpers.  A definition that needs an intermediate result     *)
(* more than once takes it as a parameter of a second definition.          *)
(***************************************************************************)
Digits == {"0", "1", "2", "3", "4", "5", "6", "7", "8", "9"}

DigitVal(c) ==
    CASE c = "0" -> 0 [] c = "1" -> 1 [] c = "2" -> 2 [] c = "3" -> 3
      [] c = "4" -> 4 [] c = "5" -> 5 [] c = "6" -> 6 [] c = "7" -> 7
      [] c = "8" -> 8 [] c = "9" -> 9

DigitChar(n) == <<"0", "1", "2", "3", "4", "5", "6", "7", "8", "9">>[n + 1]

RECURSIVE NatToStr(_)
NatToStr(n) ==
    IF n < 10 THEN <<DigitChar(n)>>
    ELSE NatToStr(n \div 10) \o <<DigitChar(n % 10)>>

\* str(n) for a Python int
IntToStr(n) == IF n < 0 THEN <<"-">> \o NatToStr(0 - n) ELSE NatToStr(n)

RECURSIVE DigitsToNat(_)
DigitsToNat(s) ==
    IF s = <<>> THEN 0
    ELSE 10 * DigitsToNat(SubSeq(s, 1, Len(s) - 1)) + DigitVal(s[Len(s)])

AllDigits(s) == \A i \in 1..Len(s) : s[i] \in Digits

RECURSIVE Strip(_)
Strip(s) ==
    IF s # <<>> /\ s[1] = " " THEN Strip(Tail(s))
    ELSE IF s # <<>> /\ s[Len(s)] = " " THEN Strip(SubSeq(s, 1, Len(s) - 1))
    ELSE s

\* int(t) for a str without surrounding blanks: an optional sign and decimal
\* digits; anything else is a ValueError (ok = FALSE)
StrippedToInt(t) ==
    IF Len(t) > 1 /\ t[1] \in {"+", "-"} /\ AllDigits(Tail(t))
    THEN [ok |-> TRUE,
          v |-> IF t[1] = "-" THEN 0 - DigitsToNat(Tail(t)) ELSE DigitsToNat(Tail(t))]
    ELSE IF t # <<>> /\ AllDigits(t) THEN [ok |-> TRUE, v |-> DigitsToNat(t)]
    ELSE [ok |-> FALSE, v |-> 0]

\* int(s) for a Python str
StrToInt(s) == StrippedToInt(Strip(s))

StartsWith(s, pre) == Len(s) >= Len(pre) /\ SubSeq(s, 1, Len(pre)) = pre

SetMax(S) == CHOOSE x \in S : \A y \in S : y <= x

SetMin(S) == CHOOSE x \in S : \A y \in S : x <= y

\* the least element of a set of positions, 0 for the empty set
FirstOf(S) == IF S = {} THEN 0 ELSE SetMin(S)

\* s.find(sub, from): the first index >= from where sub occurs, 0 if none
Find(s, sub, from) ==
    FirstOf({i \in from..(Len(s) - Len(sub) + 1) :
                SubSeq(s, i, i + Len(sub) - 1) = sub})

\* sub in s
Contains(s, sub) == Find(s, sub, 1) # 0

RECURSIVE Interleave(_, _)
Interleave(s, new) ==
    IF s = <<>> THEN new ELSE new \o <<Head(s)>> \o Interleave(Tail(s), new)

RECURSIVE ReplaceFrom(_, _, _), ReplaceAt(_, _, _, _)
\* the occurrence at i replaced, and those behind it
ReplaceAt(s, old, new, i) ==
    IF i = 0 THEN s
    ELSE SubSeq(s, 1, i - 1) \o new
         \o ReplaceFrom(SubSeq(s, i + Len(old), Len(s)), old, new)

ReplaceFrom(s, old, new) == ReplaceAt(s, old, new, Find(s, old, 1))

\* s.replace(old, new): every non-overlapping occurrence, left to right; an
\* empty old matches between all characters
Replace(s, old, new) ==
    IF old = <<>> THEN Interleave(s, new) ELSE ReplaceFrom(s, old, new)

RECURSIVE Split(_, _), SplitAt(_, _, _)
SplitAt(s, c, i) ==
    IF i = 0 THEN <<s>>
    ELSE <<SubSeq(s, 1, i - 1)>> \o Split(SubSeq(s, i + 1, Len(s)), c)

\* s.split(c) for a one-character separator
Split(s, c) == SplitAt(s, c, Find(s, <<c>>, 1))

(***************************************************************************)
(* eval() of a string made of the characters + - * / ( ) 0-9 only (the     *)
(* only strings the code hands to eval): Python's expression grammar       *)
(* restricted to that alphabet.  A value is the rational n/d (d > 0); an   *)
(* int is a rational with d = 1 and true division yields the quotient, as  *)
(* Python's float does for the operands enumerated here.  p is the         *)
(* position behind the parsed text.  k = "raise" is any exception          *)
(* (SyntaxError, ZeroDivisionError, TypeError for a call or a tuple);      *)
(* k = "unmodelled" is a power with a fractional exponent.                 *)
(***************************************************************************)
ERaise == [k |-> "raise", n |-> 0, d |-> 1, p |-> 0]

EUnmodelled == [k |-> "unmodelled", n |-> 0, d |-> 1, p |-> 0]

EVal(n, d, p) == [k |-> "val", n |-> n, d |-> d, p |-> p]

\* the character at position i, "" past the end
At(s, i) == IF i >= 1 /\ i <= Len(s) THEN s[i] ELSE ""

RECURSIVE DigitRunEnd(_, _)
DigitRunEnd(s, i) == IF At(s, i + 1) \in Digits THEN DigitRunEnd(s, i + 1) ELSE i

\* n/d with the sign carried by the numerator
Rat(n, d, p) == IF d < 0 THEN EVal(0 - n, 0 - d, p) ELSE EVal(n, d, p)

IntPow(b, e) == IF e = 0 THEN 1 ELSE b ^ e

\* a ** e for an integer e
PowInt(a, e, p) ==
    IF e >= 0 THEN EVal(IntPow(a.n, e), IntPow(a.d, e), p)
    ELSE IF a.n = 0 THEN ERaise   \* ZeroDivisionError
    ELSE Rat(IntPow(a.d, 0 - e), IntPow(a.n, 0 - e), p)

\* a ** f
Pow(a, f) ==
    IF f.k # "val" THEN f
    ELSE IF f.n % f.d # 0 THEN EUnmodelled
    ELSE PowInt(a, f.n \div f.d, f.p)

\* a decimal literal: leading zeros are a SyntaxError unless it is zero
Literal(lit, p) ==
    IF lit[1] = "0" /\ \E j \in 1..Len(lit) : lit[j] # "0" THEN ERaise
    ELSE EVal(DigitsToNat(lit), 1, p)

\* the ')' that must follow a parenthesised expression r
CloseParen(s, r) ==
    IF r.k # "val" THEN r
    ELSE IF At(s, r.p) = ")" THEN [r EXCEPT !.p = r.p + 1]
    ELSE ERaise

Negate(f) == IF f.k # "val" THEN f ELSE EVal(0 - f.n, f.d, f.p)

\* floor of a rational
Floor(q) == IF q.k # "val" THEN q ELSE EVal(q.n \div q.d, 1, q.p)

\* acc op f for the operators of a term
Times(acc, f) ==
    IF f.k # "val" THEN f ELSE EVal(acc.n * f.n, acc.d * f.d, f.p)

Over(acc, f) ==
    IF f.k # "val" THEN f
    ELSE IF f.n = 0 THEN ERaise   \* ZeroDivisionError
    ELSE Rat(acc.n * f.d, acc.d * f.n, f.p)

\* acc + t and acc - t
Plus(acc, t) ==
    IF t.k # "val" THEN t
    ELSE EVal(acc.n * t.d + t.n * acc.d, acc.d * t.d, t.p)

Minus(acc, t) ==
    IF t.k # "val" THEN t
    ELSE EVal(acc.n * t.d - t.n * acc.d, acc.d * t.d, t.p)

RECURSIVE PExpr(_, _), PExprRest(_, _), PTerm(_, _), PTermRest(_, _)
RECURSIVE PFactor(_, _), PPower(_, _), PAtom(_, _), PTrailer(_, _)

\* atom: NUMBER | '(' expr ')' ; '()' is the empty tuple, which no operator
\* of the alphabet turns back into a number
PAtom(s, i) ==
    IF At(s, i) = "("
    THEN IF At(s, i + 1) = ")" THEN ERaise ELSE CloseParen(s, PExpr(s, i + 1))
    ELSE IF At(s, i) \in Digits
    THEN Literal(SubSeq(s, i, DigitRunEnd(s, i)), DigitRunEnd(s, i) + 1)
    ELSE ERaise

\* what follows an atom a: '(' is a call of a number, '**' a power
PTrailer(s, a) ==
    IF a.k # "val" THEN a
    ELSE IF At(s, a.p) = "(" THEN ERaise
    ELSE IF At(s, a.p) = "*" /\ At(s, a.p + 1) = "*"
    THEN Pow(a, PFactor(s, a.p + 2))
    ELSE a

\* power: atom ['**' factor]
PPower(s, i) == PTrailer(s, PAtom(s, i))

\* factor: ('+' | '-') factor | power
PFactor(s, i) ==
    IF At(s, i) = "-" THEN Negate(PFactor(s, i + 1))
    ELSE IF At(s, i) = "+" THEN PFactor(s, i + 1)
    ELSE PPower(s, i)

\* term: factor (('*' | '/' | '//') factor)*, left to right from acc
PTermRest(s, acc) ==
    IF acc.k # "val" THEN acc
    ELSE IF At(s, acc.p) = "*"
    THEN IF At(s, acc.p + 1) = "*" THEN ERaise
         ELSE PTermRest(s, Times(acc, PFactor(s, acc.p + 1)))
    ELSE IF At(s, acc.p) = "/"
    THEN IF At(s, acc.p + 1) = "/"
         THEN PTermRest(s, Floor(Over(acc, PFactor(s, acc.p + 2))))
         ELSE PTermRest(s, Over(acc, PFactor(s, acc.p + 1)))
    ELSE acc

PTerm(s, i) == PTermRest(s, PFactor(s, i))

\* expr: term (('+' | '-') term)*, left to right from acc
PExprRest(s, acc) ==
    IF acc.k # "val" THEN acc
    ELSE IF At(s, acc.p) = "+" THEN PExprRest(s, Plus(acc, PTerm(s, acc.p + 1)))
    ELSE IF At(s, acc.p) = "-" THEN PExprRest(s, Minus(acc, PTerm(s, acc.p + 1)))
    ELSE acc

PExpr(s, i) == PExprRest(s, PTerm(s, i))

\* the whole string must be one expression
WholeString(s, r) == IF r.k = "val" /\ r.p # Len(s) + 1 THEN ERaise ELSE r

\* eval(s)
Eval(s) == WholeString(s, PExpr(s, 1))

\* int(x): truncation toward zero
Trunc(n, d) == IF n >= 0 THEN n \div d ELSE 0 - ((0 - n) \div d)

\* re.search(r'[^+\-*/()0-9]', s)
HasNonArith(s) ==
    \E i \in 1..Len(s) : s[i] \notin (Digits \cup {"+", "-", "*", "/", "(", ")"})

(***************************************************************************)
(* String constants of the source.                                         *)
(***************************************************************************)
s_empty     == <<>>
s_0         == <<"0">>
s_1         == <<"1">>
s_31        == <<"3", "1">>
s_32        == <<"3", "2">>
s_b         == <<"b">>
s_u         == <<"u">>
s_uf        == <<"u", "f">>
s_s         == <<"s">>
s_sf        == <<"s", "f">>
s_integer   == <<"i", "n", "t", "e", "g", "e", "r">>
s_boolean   == <<"b", "o", "o", "l", "e", "a", "n">>
s_std_logic == <<"s", "t", "d", "_", "l", "o", "g", "i", "c">>
s_slv       == s_std_logic \o <<"_", "v", "e", "c", "t", "o", "r">>
s_unsigned  == <<"u", "n", "s", "i", "g", "n", "e", "d">>
s_signed    == <<"s", "i", "g", "n", "e", "d">>
s_ufixed    == <<"u", "f", "i", "x", "e", "d">>
s_sfixed    == <<"s", "f", "i", "x", "e", "d">>
s_downto    == <<" ", "d", "o", "w", "n", "t", "o", " ">>
s_semi      == <<";">>
s_comma     == <<",">>
s_blank     == <<" ">>
s_PARAMETER == <<"P", "A", "R", "A", "M", "E", "T", "E", "R">>
s_CONSTANT == <<"C", "O", "N", "S", "T", "A", "N", "T">>
s_IN == <<"I", "N">>
s_OUT == <<"O", "U", "T">>
s_INOUT == <<"I", "N", "O", "U", "T">>
s_TYPE == <<"T", "Y", "P", "E">>
s_DEFAULT == <<"D", "E", "F", "A", "U", "L", "T">>
s_NAME == <<"N", "A", "M", "E">>
s_ERROR_NO_NAME ==
    <<"E", "R", "R", "O", "R", "_", "N", "O", "_", "N", "A", "M", "E">>
s_input == <<"i", "n", "p", "u", "t">>
s_output == <<"o", "u", "t", "p", "u", "t">>
s_bidirectional ==
    <<"b", "i", "d", "i", "r", "e", "c", "t", "i", "o", "n", "a", "l">>
s_in == <<"i", "n">>
s_out == <<"o", "u", "t">>
s_inout == <<"i", "n", "o", "u", "t">>
s_unconnected == <<"u", "n", "c", "o", "n", "n", "e", "c", "t", "e", "d">>
s_open == <<"o", "p", "e", "n">>
s_false == <<"f", "a", "l", "s", "e">>
s_bit0 == <<"'", "0", "'">>
s_others0 ==
    <<"(", "o", "t", "h", "e", "r", "s", " ", "=", ">", " ", "'", "0", "'",
      ")">>
s_lib_1164 ==
    <<"I", "E", "E", "E", ".", "s", "t", "d", "_", "l", "o", "g", "i", "c",
      "_", "1", "1", "6", "4", ".", "a", "l", "l">>
s_lib_numeric ==
    <<"I", "E", "E", "E", ".", "n", "u", "m", "e", "r", "i", "c", "_", "s",
      "t", "d", ".", "a", "l", "l">>
s_lib_fixed ==
    <<"I", "E", "E", "E", ".", "f", "i", "x", "e", "d", "_", "p", "k", "g",
      ".", "a", "l", "l">>
s_assign == <<" ", ":", "=", " ">>
s_slv3 == <<"s", "l", "v">>
s_close_dashes == <<")", " ", "-", "-", " ">>

(***************************************************************************)
(* The dataclasses.  namepadding and commentstr, and high, low and length  *)
(* of a Generic, are read by no statement of generate_code and are left    *)
(* out.                                                                    *)
(***************************************************************************)
\* Generic(name=..., typestr=..., default=..., value=...)
Generic(nm, typestr, default, value) ==
    [name |-> nm, typestr |-> typestr, default |-> default,
     defaultstr |-> s_empty, value |-> value,
     semicolon |-> s_semi, comma |-> s_comma, vhdl_type |-> s_empty]

\* Port(name=..., num=..., dirstr=...)
Port(nm, num, dirstr) ==
    [name |-> nm, dirstr |-> dirstr, typestr |-> s_empty,
     semicolon |-> s_semi, comma |-> s_comma, num |-> num,
     vhdl_type |-> s_empty, high |-> s_0, low |-> s_0, length |-> s_1,
     target |-> s_empty]

\* A Python value that is a str or an int
PyStr(s) == [k |-> "str", s |-> s, v |-> 0]

PyInt(v) == [k |-> "int", s |-> s_empty, v |-> v]

PyRaise == [k |-> "raise", s |-> s_empty, v |-> 0]

\* str(x), as an f-string formats x
ToStr(x) == IF x.k = "int" THEN IntToStr(x.v) ELSE x.s

(***************************************************************************)
(* parse_portsize_part                                                     *)
(***************************************************************************)
RECURSIVE SubstituteGenerics(_, _), SubstituteValue(_, _, _)
\* the try block for a generic whose name occurs in size_part: gen_value is
\* int(generic.value), a ValueError returns size_part as it is
SubstituteValue(size_part, gens, gen_value) ==
    IF gen_value.ok
    THEN SubstituteGenerics(
             PyStr(Replace(size_part.s, Head(gens).name, IntToStr(gen_value.v))),
             Tail(gens))
    ELSE [k |-> "str", x |-> size_part]

\* variant: the loop without the type test of line 60
SubstituteGenericsAnyType(size_part, gens) ==
    IF gens = <<>> THEN [k |-> "next", x |-> size_part]
    ELSE IF size_part.k = "int" THEN [k |-> "raise", x |-> size_part]
    ELSE IF Contains(size_part.s, Head(gens).name)
    THEN SubstituteValue(size_part, gens, StrToInt(Head(gens).value))
    ELSE SubstituteGenerics(size_part, Tail(gens))

\* the substitution loop: k = "next" when the loop runs to its end, "str"
\* on the early return of the ValueError handler, "raise" when size_part
\* is not a str ('in' with an int right operand is a TypeError)
SubstituteGenerics(size_part, gens) ==
    IF gens = <<>> THEN [k |-> "next", x |-> size_part]
    ELSE IF Head(gens).typestr # s_integer
    THEN SubstituteGenerics(size_part, Tail(gens))
    ELSE IF size_part.k = "int" THEN [k |-> "raise", x |-> size_part]
    ELSE IF Contains(size_part.s, Head(gens).name)
    THEN SubstituteValue(size_part, gens, StrToInt(Head(gens).value))
    ELSE SubstituteGenerics(size_part, Tail(gens))

\* int(r) for the value r of eval
IntOf(r) == IF r.k = "val" THEN PyInt(Trunc(r.n, r.d)) ELSE PyRaise

\* what follows the loop, sub being the loop's outcome
Simplify(sub) ==
    IF sub.k = "raise" THEN PyRaise
    ELSE IF sub.k = "str" THEN sub.x
    ELSE IF sub.x.k = "int" THEN PyRaise     \* re.search on an int
    ELSE IF HasNonArith(sub.x.s) THEN sub.x
    ELSE IntOf(Eval(sub.x.s))

parse_portsize_part(size_part, gens) == Simplify(SubstituteGenerics(size_part, gens))

(***************************************************************************)
(* Port.update_from_name                                                   *)
(***************************************************************************)
\* the groups of a match whose '(' is at position i, no match for i = 0
MatchAt(nm, i) ==
    IF i = 0 THEN [matched |-> FALSE, parts |-> <<s_empty, s_empty>>]
    ELSE [matched |-> TRUE,
          parts |-> <<SubSeq(nm, 1, i - 1), SubSeq(nm, i + 1, Len(nm) - 1)>>]

\* NameMatch without the ')' that ends the pattern: the hint runs to the
\* end of the name
NameMatchOpenOnly(nm) ==
    IF nm # <<>> /\ nm[Len(nm)] = ")"
    THEN MatchAt(nm, FirstOf({i \in 1..(Len(nm) - 2) : nm[i] = "("}))
    ELSE MatchAt(nm \o <<")">>, FirstOf({i \in 1..(Len(nm) - 1) : nm[i] = "("}))

\* re.search(r'^(.*?)\((.+)\)$', name): the lazy first group ends at the
\* first '(' that leaves at least one character before the final ')'
NameMatch(nm) ==
    IF nm # <<>> /\ nm[Len(nm)] = ")"
    THEN MatchAt(nm, FirstOf({i \in 1..(Len(nm) - 2) : nm[i] = "("}))
    ELSE MatchAt(nm, 0)

\* typestr_parts = typestr.split(' '): the first two parts
NamedType(typestr_parts) ==
    [vhdl_type |-> typestr_parts[1], typestr |-> typestr_parts[2]]

\* HintFamily with the one-letter prefixes tested before the two-letter ones
HintFamilyShortFirst(typestr) ==
    IF StartsWith(typestr, s_u)
    THEN [vhdl_type |-> s_unsigned, typestr |-> Tail(typestr)]
    ELSE IF StartsWith(typestr, s_uf)
    THEN [vhdl_type |-> s_ufixed, typestr |-> SubSeq(typestr, 3, Len(typestr))]
    ELSE IF StartsWith(typestr, s_s)
    THEN [vhdl_type |-> s_signed, typestr |-> Tail(typestr)]
    ELSE IF StartsWith(typestr, s_sf)
    THEN [vhdl_type |-> s_sfixed, typestr |-> SubSeq(typestr, 3, Len(typestr))]
    ELSE IF Contains(typestr, s_blank)
    THEN NamedType(Split(typestr, " "))
    ELSE [vhdl_type |-> s_slv, typestr |-> typestr]

\* the chain that picks vhdl_type and removes the hint from typestr
HintFamily(typestr) ==
    IF StartsWith(typestr, s_uf)
    THEN [vhdl_type |-> s_ufixed, typestr |-> SubSeq(typestr, 3, Len(typestr))]
    ELSE IF StartsWith(typestr, s_u)
    THEN [vhdl_type |-> s_unsigned, typestr |-> Tail(typestr)]
    ELSE IF StartsWith(typestr, s_sf)
    THEN [vhdl_type |-> s_sfixed, typestr |-> SubSeq(typestr, 3, Len(typestr))]
    ELSE IF StartsWith(typestr, s_s)
    THEN [vhdl_type |-> s_signed, typestr |-> Tail(typestr)]
    ELSE IF Contains(typestr, s_blank)
    THEN NamedType(Split(typestr, " "))
    ELSE [vhdl_type |-> s_slv, typestr |-> typestr]

\* high_str and low_str of range_parts = typestr.split(':'); a hint without
\* ':' gets the int 0 as low
RangeOf(range_parts) ==
    IF Len(range_parts) = 1
    THEN [high_str |-> PyStr(range_parts[1]), low_str |-> PyInt(0)]
    ELSE [high_str |-> PyStr(range_parts[1]), low_str |-> PyStr(range_parts[2])]

RangeParts(typestr) == RangeOf(Split(typestr, ":"))

\* self.length from the two bounds
PortLength(high, low) ==
    IF high.k = "int" /\ low.k = "int"
    THEN IntToStr(high.v - low.v + 1)
    ELSE ToStr(high) \o <<"-">> \o ToStr(low)

\* the assignments behind the if do_eval statement; an exception of
\* parse_portsize_part leaves the method with name and vhdl_type assigned
SetRange(self, nm, vhdl_type, high, low) ==
    IF high.k = "raise" \/ low.k = "raise"
    THEN [raised |-> TRUE,
          port |-> [self EXCEPT !.name = nm, !.vhdl_type = vhdl_type]]
    ELSE [raised |-> FALSE,
          port |-> [self EXCEPT
              !.name = nm,
              !.length = PortLength(high, low),
              !.high = ToStr(high),
              !.low = ToStr(low),
              !.vhdl_type = vhdl_type \o <<"(">> \o ToStr(high)
                            \o s_downto \o ToStr(low) \o <<")">>]]

\* the if do_eval statement on the range rp
EvalRange(self, nm, vhdl_type, rp, gens, do_eval) ==
    IF do_eval
    THEN SetRange(self, nm, vhdl_type,
                  parse_portsize_part(rp.high_str, gens),
                  parse_portsize_part(rp.low_str, gens))
    ELSE SetRange(self, nm, vhdl_type, rp.high_str, rp.low_str)

\* the range hint of family fam
DecodeRange(self, nm, fam, gens, do_eval) ==
    EvalRange(self, nm, fam.vhdl_type, RangeParts(fam.typestr), gens, do_eval)

\* the method behind re.search
DecodeMatch(self, match, gens, do_eval) ==
    IF ~match.matched
    THEN [raised |-> FALSE,
          port |-> [self EXCEPT !.vhdl_type = s_std_logic, !.high = s_0,
                                !.low = s_0, !.length = s_1]]
    ELSE IF match.parts[2] = s_b
    THEN [raised |-> FALSE,
          port |-> [self EXCEPT !.vhdl_type = s_boolean, !.high = s_0,
                                !.low = s_0, !.length = s_1]]
    ELSE IF match.parts[2] = s_integer
    THEN [raised |-> FALSE,
          port |-> [self EXCEPT !.vhdl_type = s_integer, !.high = s_31,
                                !.low = s_0, !.length = s_32]]
    ELSE DecodeRange(self, match.parts[1], HintFamily(match.parts[2]), gens, do_eval)

\* the whole method; raised = TRUE when an exception leaves it, with the
\* assignments made before the exception kept
update_from_name(self, gens, do_eval) ==
    DecodeMatch(self, NameMatch(self.name), gens, do_eval)

(***************************************************************************)
(* Objects of generate_code.  Port objects of component definitions and of *)
(* instances live in port_heap and are referred to by address (an index),  *)
(* as Python refers to them by reference: a Component's ports is a list of *)
(* addresses, a Connection's port an address (0 for None).  A Component's  *)
(* component field is an index into component_list (0 for None).           *)
(***************************************************************************)
Component(nm, instance_name, ports, properties, component) ==
    [name |-> nm, instance_name |-> instance_name, ports |-> ports,
     properties |-> properties, component |-> component]

Connection(ref, pin, port) == [ref |-> ref, pin |-> pin, port |-> port]

Signal(nm, code, vhdl_type, connections) ==
    [name |-> nm, code |-> code, vhdl_type |-> vhdl_type,
     connections |-> connections]

PseudoParts == {s_PARAMETER, s_CONSTANT, s_IN, s_OUT, s_INOUT}

\* the greatest element of a set of positions, 0 for the empty set
LastOf(S) == IF S = {} THEN 0 ELSE SetMax(S)

\* addresses of n objects appended to a heap of length len
NewAddrs(len, n) == [k \in 1..n |-> len + k]

\* the value of the k-th property, default for k = 0
PropertyAt(property_list, k, default) ==
    IF k = 0 THEN default ELSE property_list[k].value

find_property(property_list, nm, default) ==
    PropertyAt(property_list,
               FirstOf({k \in DOMAIN property_list : property_list[k].name = nm}),
               default)

\* the groups of a match with '(' at k and ') -- ' at j, no match for k = 0
PropertyGroups(s, k, j) ==
    IF k = 0 THEN [matched |-> FALSE, parts |-> <<>>]
    ELSE [matched |-> TRUE,
          parts |-> <<SubSeq(s, 1, k - 1), SubSeq(s, k + 1, j - 1),
                      SubSeq(s, j + 5, Len(s))>>]

\* the '(' of a match whose ') -- ' is at j: the last one before j
PropertyOpen(s, j) ==
    PropertyGroups(s, LastOf({k \in 1..Len(s) : s[k] = "(" /\ k < j}), j)

\* re.search(r'(.*)\((.*)\) -- (.*)', s): both leading groups are greedy,
\* so the ') -- ' is the last one of the string and the '(' the last one
\* before it
PropertyMatch(s) ==
    PropertyOpen(s, LastOf({j \in 1..(Len(s) - 4) :
                               SubSeq(s, j, j + 4) = s_close_dashes}))

\* the Generic of a record whose name matches; from_libpart also sets
\* default to the record's value
PropertyOf(rec, match, with_default) ==
    IF match.matched
    THEN <<Generic(match.parts[1], match.parts[2],
                   IF with_default THEN rec.value ELSE s_empty, rec.value)>>
    ELSE <<>>

RECURSIVE PropertiesOf(_, _)
\* the loop over the fields of a libpart or the properties of a comp
PropertiesOf(records, with_default) ==
    IF records = <<>> THEN <<>>
    ELSE PropertyOf(Head(records), PropertyMatch(Head(records).name), with_default)
         \o PropertiesOf(Tail(records), with_default)

PinDir(type) ==
    IF type = s_input THEN s_in
    ELSE IF type = s_output THEN s_out
    ELSE IF type = s_bidirectional THEN s_inout
    ELSE type

\* Component.from_libpart, the ports as the Port objects to allocate
from_libpart(libpart) ==
    [name |-> libpart.part,
     properties |-> PropertiesOf(libpart.fields, TRUE),
     ports |-> [k \in DOMAIN libpart.pins |->
                   Port(libpart.pins[k].name, libpart.pins[k].num,
                        PinDir(libpart.pins[k].type))]]

\* Component.from_comp
from_comp(comp) ==
    Component(comp.part, comp.ref, <<>>, PropertiesOf(comp.properties, FALSE), 0)

\* Port.copy_port: a new object with every field of the source
copy_port(source) ==
    [name |-> source.name, dirstr |-> source.dirstr,
     typestr |-> source.typestr, semicolon |-> source.semicolon,
     comma |-> source.comma, num |-> source.num,
     vhdl_type |-> source.vhdl_type, high |-> source.high,
     low |-> source.low, length |-> source.length, target |-> source.target]

RECURSIVE LinkLibpart(_, _, _, _)
\* the loop over component_list of an instance: every definition of the
\* instance's name becomes its component and has its ports copied
LinkLibpart(component, heap, defs, k) ==
    IF k > Len(defs) THEN [component |-> component, heap |-> heap]
    ELSE IF defs[k].name = component.name
    THEN LinkLibpart(
             [component EXCEPT
                 !.component = k,
                 !.ports = @ \o NewAddrs(Len(heap), Len(defs[k].ports))],
             heap \o [m \in DOMAIN defs[k].ports |-> copy_port(heap[defs[k].ports[m]])],
             defs, k + 1)
    ELSE LinkLibpart(component, heap, defs, k + 1)

RECURSIVE SubstituteOne(_, _, _)
\* the inner loop: every other property whose name occurs in properties[i]'s
\* value is replaced there by its current value
SubstituteOne(properties, i, j) ==
    IF j > Len(properties) THEN properties
    ELSE IF properties[j].name # properties[i].name
            /\ Contains(properties[i].value, properties[j].name)
    THEN SubstituteOne(
             [properties EXCEPT
                 ![i].value = Replace(@, properties[j].name, properties[j].value)],
             i, j + 1)
    ELSE SubstituteOne(properties, i, j + 1)

RECURSIVE SubstituteProperties(_, _)
SubstituteProperties(properties, i) ==
    IF i > Len(properties) THEN properties
    ELSE IF HasNonArith(properties[i].value)
    THEN SubstituteProperties(SubstituteOne(properties, i, 1), i + 1)
    ELSE SubstituteProperties(properties, i + 1)

RECURSIVE EvalProperties(_, _), EvalProperty(_, _, _)
\* prop.value = f"{int(eval(prop.value))}", r being the value of eval
EvalProperty(properties, i, r) ==
    IF r.k # "val" THEN [raised |-> TRUE, properties |-> properties]
    ELSE EvalProperties(
             [properties EXCEPT ![i].value = IntToStr(Trunc(r.n, r.d))], i + 1)

\* the second loop: every value of arithmetic characters only is evaluated
EvalProperties(properties, i) ==
    IF i > Len(properties) THEN [raised |-> FALSE, properties |-> properties]
    ELSE IF ~HasNonArith(properties[i].value)
    THEN EvalProperty(properties, i, Eval(properties[i].value))
    ELSE EvalProperties(properties, i + 1)

RECURSIVE DecodePorts(_, _, _, _, _), DecodePort(_, _, _, _, _, _)
\* the k-th port takes the outcome r of its update_from_name
DecodePort(heap, ports, k, properties, do_eval, r) ==
    IF r.raised
    THEN [raised |-> TRUE, heap |-> [heap EXCEPT ![ports[k]] = r.port]]
    ELSE DecodePorts([heap EXCEPT ![ports[k]] = r.port], ports, k + 1,
                     properties, do_eval)

\* for port in ports: port.update_from_name(properties, do_eval)
DecodePorts(heap, ports, k, properties, do_eval) ==
    IF k > Len(ports) THEN [raised |-> FALSE, heap |-> heap]
    ELSE DecodePort(heap, ports, k, properties, do_eval,
                    update_from_name(heap[ports[k]], properties, do_eval))

\* the type string and default string of a generic or constant
FinalizeGeneric(gen) ==
    [gen EXCEPT
        !.vhdl_type = Replace(Replace(@, <<":">>, s_downto), s_slv3, s_slv),
        !.defaultstr = IF gen.default # s_empty THEN s_assign \o gen.default ELSE @]

\* the same for a property of a component definition: the second assignment
\* starts again from typestr
FinalizeProperty(gen) ==
    [gen EXCEPT
        !.vhdl_type = Replace(gen.typestr, s_slv3, s_slv),
        !.defaultstr = IF gen.default # s_empty THEN s_assign \o gen.default ELSE @]

RECURSIVE DecodeDefinitions(_, _, _), DecodeDefinition(_, _, _, _)
\* the ports of the k-th definition decoded against its typed properties
DecodeDefinition(defs, heap, k, props) ==
    DecodeDefinitions([defs EXCEPT ![k].properties = props],
                      DecodePorts(heap, defs[k].ports, 1, props, FALSE).heap,
                      k + 1)

\* the loop over component_list that types the definitions
DecodeDefinitions(defs, heap, k) ==
    IF k > Len(defs) THEN [defs |-> defs, heap |-> heap]
    ELSE DecodeDefinition(defs, heap, k,
             [m \in DOMAIN defs[k].properties |->
                 FinalizeProperty(defs[k].properties[m])])

(***************************************************************************)
(* Net consolidation.                                                      *)
(***************************************************************************)
RECURSIVE StripRanges(_), StripToClose(_, _, _)
\* the match from the '(' at o to the ')' at e removed, and those behind it
StripToClose(s, o, e) ==
    IF e = 0 THEN s
    ELSE SubSeq(s, 1, o - 1) \o StripRanges(SubSeq(s, e + 1, Len(s)))

\* the first ')' behind the ':' at c
StripFromColon(s, o, c) ==
    IF c = 0 THEN s ELSE StripToClose(s, o, Find(s, <<")">>, c + 1))

\* the first ':' behind the '(' at o
StripFromOpen(s, o) ==
    IF o = 0 THEN s ELSE StripFromColon(s, o, Find(s, <<":">>, o + 1))

\* re.sub("\(.*?:.*?\)", '', s): from the first '(' to the first ')' after
\* the first ':' behind it, repeated on what follows
StripRanges(s) == StripFromOpen(s, Find(s, <<"(">>, 1))

\* the candidate signal name of a net
SignalName(net_name) ==
    Replace(Replace(Replace(StripRanges(Replace(net_name, <<"/">>, s_empty)),
                            <<"-">>, <<"_">>),
                    <<"(">>, s_empty),
            <<")">>, s_empty)

RECURSIVE MatchPorts(_, _, _, _)
\* the addresses of the ports, from the k-th on, whose num is pin
MatchPorts(heap, ports, k, pin) ==
    IF k > Len(ports) THEN <<>>
    ELSE (IF heap[ports[k]].num = pin THEN <<ports[k]>> ELSE <<>>)
         \o MatchPorts(heap, ports, k + 1, pin)

RECURSIVE MatchNode(_, _, _, _)
\* MatchNode without the test of the pin number: every port of an instance
\* with the node's reference
MatchNodeAnyPin(heap, instances, i, node) ==
    IF i > Len(instances) THEN <<>>
    ELSE (IF instances[i].instance_name = node.ref
          THEN instances[i].ports
          ELSE <<>>)
         \o MatchNode(heap, instances, i + 1, node)

\* the two nested loops that resolve a node: the ports with the node's pin
\* number of the instances with the node's reference, in iteration order
MatchNode(heap, instances, i, node) ==
    IF i > Len(instances) THEN <<>>
    ELSE (IF instances[i].instance_name = node.ref
          THEN MatchPorts(heap, instances[i].ports, 1, node.pin)
          ELSE <<>>)
         \o MatchNode(heap, instances, i + 1, node)

\* UnconnectedTarget without the case of a boolean input
UnconnectedTargetNoBoolean(port) ==
    IF port.dirstr = s_in
    THEN IF port.vhdl_type = s_std_logic THEN s_bit0 ELSE s_others0
    ELSE s_open

\* the target an 'unconnected' net gives a port
UnconnectedTarget(port) ==
    IF port.dirstr = s_in
    THEN IF port.vhdl_type = s_boolean THEN s_false
         ELSE IF port.vhdl_type = s_std_logic THEN s_bit0
         ELSE s_others0
    ELSE s_open

\* heap and assignment counts
Store(heap, writes) == [heap |-> heap, writes |-> writes]

RECURSIVE AssignTargetsOnce(_, _, _, _, _)
\* AssignTargets that leaves a target that is already set
AssignTargetsOnce(st, addrs, k, unconnected, nm) ==
    IF k > Len(addrs) THEN st
    ELSE IF st.heap[addrs[k]].target # s_empty
    THEN AssignTargetsOnce(st, addrs, k + 1, unconnected, nm)
    ELSE AssignTargetsOnce(
             Store([st.heap EXCEPT
                       ![addrs[k]].target =
                           IF unconnected THEN UnconnectedTarget(st.heap[addrs[k]])
                           ELSE nm],
                   [st.writes EXCEPT ![addrs[k]] = @ + 1]),
             addrs, k + 1, unconnected, nm)

RECURSIVE AssignTargets(_, _, _, _, _)
\* port.target = ... for every address of addrs; unconnected selects the
\* value of the 'unconnected' branch, otherwise it is nm
AssignTargets(st, addrs, k, unconnected, nm) ==
    IF k > Len(addrs) THEN st
    ELSE AssignTargets(
             Store([st.heap EXCEPT
                       ![addrs[k]].target =
                           IF unconnected THEN UnconnectedTarget(st.heap[addrs[k]])
                           ELSE nm],
                   [st.writes EXCEPT ![addrs[k]] = @ + 1]),
             addrs, k + 1, unconnected, nm)

RECURSIVE UnconnectedNodes(_, _, _, _)
\* the body of the 'unconnected' branch over the nodes from the k-th on
UnconnectedNodes(st, instances, nodes, k) ==
    IF k > Len(nodes) THEN st
    ELSE UnconnectedNodes(
             AssignTargets(st, MatchNode(st.heap, instances, 1, nodes[k]), 1,
                           TRUE, s_empty),
             instances, nodes, k + 1)

\* DirectAt that marks the net skipped and keeps the candidate name
DirectAtKeepName(nodes, table, candidate, k) ==
    [name |-> candidate, skip |-> k # 0]

\* the outcome of the scan that breaks at the k-th node, at none for k = 0
DirectAt(nodes, table, candidate, k) ==
    IF k = 0 THEN [name |-> candidate, skip |-> FALSE]
    ELSE [name |-> table[nodes[k].ref], skip |-> TRUE]

\* DirectConnect without the break: the last node whose ref is a key renames
\* the net
DirectConnectLast(nodes, table, candidate) ==
    DirectAt(nodes, table, candidate,
             LastOf({k \in DOMAIN nodes : nodes[k].ref \in DOMAIN table}))

\* the direct-connect scan: the first node whose ref is a key renames the
\* net and marks it skipped
DirectConnect(nodes, table, candidate) ==
    DirectAt(nodes, table, candidate,
             FirstOf({k \in DOMAIN nodes : nodes[k].ref \in DOMAIN table}))

\* connection.port behind the inner loops: the last port matched
LastPort(addrs) == IF addrs = <<>> THEN 0 ELSE addrs[Len(addrs)]

RECURSIVE ConnectNodes(_, _, _, _, _, _), ConnectNode(_, _, _, _, _, _, _)
\* ConnectNode with the append inside the port loop: a node that resolves to
\* no port leaves no Connection
ConnectNodeFound(st, connections, instances, nodes, k, nm, addrs) ==
    ConnectNodes(
        AssignTargets(st, addrs, 1, FALSE, nm),
        IF addrs = <<>> THEN connections
        ELSE Append(connections,
                    Connection(nodes[k].ref, nodes[k].pin, LastPort(addrs))),
        instances, nodes, k + 1, nm)

\* the k-th node, addrs being the ports it resolves to
ConnectNode(st, connections, instances, nodes, k, nm, addrs) ==
    ConnectNodes(
        AssignTargets(st, addrs, 1, FALSE, nm),
        Append(connections, Connection(nodes[k].ref, nodes[k].pin, LastPort(addrs))),
        instances, nodes, k + 1, nm)

\* the loop that records a Connection per node and assigns the targets
ConnectNodes(st, connections, instances, nodes, k, nm) ==
    IF k > Len(nodes) THEN [st |-> st, connections |-> connections]
    ELSE ConnectNode(st, connections, instances, nodes, k, nm,
                     MatchNode(st.heap, instances, 1, nodes[k]))

RECURSIVE SignalType(_, _, _, _)
\* SignalType without the test of the type already taken: the type of the
\* last connected port
SignalTypeLast(heap, connections, k, vhdl_type) ==
    IF k > Len(connections) THEN vhdl_type
    ELSE IF connections[k].port # 0
    THEN SignalType(heap, connections, k + 1, heap[connections[k].port].vhdl_type)
    ELSE SignalType(heap, connections, k + 1, vhdl_type)

\* the loop that types the signal: the first connected port's type, unless
\* that is the empty string
SignalType(heap, connections, k, vhdl_type) ==
    IF k > Len(connections) THEN vhdl_type
    ELSE IF connections[k].port # 0 /\ vhdl_type = s_empty
    THEN SignalType(heap, connections, k + 1, heap[connections[k].port].vhdl_type)
    ELSE SignalType(heap, connections, k + 1, vhdl_type)

(***************************************************************************)
(* Dependency inference and separators.                                    *)
(***************************************************************************)
\* the library a type string asks for, s_empty for none
LibraryOf(vhdl_type) ==
    IF Contains(vhdl_type, s_unsigned) THEN s_lib_numeric
    ELSE IF Contains(vhdl_type, s_signed) THEN s_lib_numeric
    ELSE IF Contains(vhdl_type, s_sfixed) THEN s_lib_fixed
    ELSE IF Contains(vhdl_type, s_ufixed) THEN s_lib_fixed
    ELSE s_empty

\* AddLibrary without the dict: every item that asks for a library adds it
AddLibraryAgain(libs, lib) ==
    IF lib = s_empty THEN libs ELSE Append(libs, lib)

\* library_list_dict[lib] = True: a key keeps the position of its first
\* insertion
AddLibrary(libs, lib) ==
    IF lib = s_empty \/ \E k \in DOMAIN libs : libs[k] = lib THEN libs
    ELSE Append(libs, lib)

RECURSIVE ScanLibraries(_, _)
\* the scan over the type strings in order
ScanLibraries(libs, types) ==
    IF types = <<>> THEN libs
    ELSE ScanLibraries(AddLibrary(libs, LibraryOf(Head(types))), Tail(types))

RECURSIVE Flatten(_)
Flatten(seqs) == IF seqs = <<>> THEN <<>> ELSE Head(seqs) \o Flatten(Tail(seqs))

TypesOf(items) == [k \in DOMAIN items |-> items[k].vhdl_type]

\* comp.properties + comp.ports for every comp, as type strings
CompTypes(heap, comps) ==
    Flatten([k \in DOMAIN comps |->
                TypesOf(comps[k].properties)
                \o [m \in DOMAIN comps[k].ports |-> heap[comps[k].ports[m]].vhdl_type]])

\* StripLast without the assignment to comma
StripLastSemicolon(items) ==
    IF items = <<>> THEN items
    ELSE [items EXCEPT ![Len(items)].semicolon = s_blank]

\* items[-1].semicolon = ' '; items[-1].comma = ' ' when items is not empty
StripLast(items) ==
    IF items = <<>> THEN items
    ELSE [items EXCEPT ![Len(items)].semicolon = s_blank,
                       ![Len(items)].comma = s_blank]

RECURSIVE StripPorts(_, _, _)
\* the same on the last port of every comp from the k-th on
StripPorts(heap, comps, k) ==
    IF k > Len(comps) THEN heap
    ELSE IF comps[k].ports = <<>> THEN StripPorts(heap, comps, k + 1)
    ELSE StripPorts(
             [heap EXCEPT ![comps[k].ports[Len(comps[k].ports)]].semicolon = s_blank,
                          ![comps[k].ports[Len(comps[k].ports)]].comma = s_blank],
             comps, k + 1)

StripProperties(comps) ==
    [k \in DOMAIN comps |-> [comps[k] EXCEPT !.properties = StripLast(@)]]

(***************************************************************************)
(* The documents generate_code is run on: the library parts and components *)
(* are drawn at the start, the nets as the net loop reads them.            *)
(***************************************************************************)
s_ADDER == <<"A", "D", "D", "E", "R">>
s_MISSING == <<"M", "I", "S", "S", "I", "N", "G">>
s_U1 == <<"U", "1">>
s_U2 == <<"U", "2">>
s_U3 == <<"U", "3">>
s_X1 == <<"X", "1">>
s_X2 == <<"X", "2">>
s_2 == <<"2">>
s_4 == <<"4">>
s_5 == <<"5">>
s_K == <<"K">>
s_DW == <<"D", "W">>
n_A == <<"A", "(", "D", "W", "-", "1", ":", "0", ")">>
n_Q == <<"Q", "(", "u", "3", ":", "0", ")">>
n_EN == <<"E", "N">>
n_IO == <<"I", "O", "(", "3", ":", "0", ")">>
n_F == <<"F", "(", "b", ")">>
n_dout == <<"d", "o", "u", "t", "(", "u", "3", ":", "0", ")">>
n_clk == <<"c", "l", "k">>
n_A7 == <<"A", "(", "7", ")">>
n_P == <<"P", "(", "s", "f", "3", ":", "0", ")">>
n_R == <<"R", "(", "u", "f", "3", ":", "0", ")">>
f_DW ==
    <<"D", "W", "(", "i", "n", "t", "e", "g", "e", "r", ")", " ", "-", "-",
      " ", "w">>
e_2x2 == <<"2", "*", "2">>
net_unc ==
    <<"u", "n", "c", "o", "n", "n", "e", "c", "t", "e", "d", "-", "(", "U",
      "1", "-", "P", "a", "d", "1", ")">>
net_data == <<"/", "d", "a", "t", "a", "(", "3", ":", "0", ")">>

Pin(num, nm, type) == [num |-> num, name |-> nm, type |-> type]

Property(nm, value) == [name |-> nm, value |-> value]

Libpart(part, fields, pins) == [part |-> part, fields |-> fields, pins |-> pins]

Comp(ref, value, part, properties) ==
    [ref |-> ref, value |-> value, part |-> part, properties |-> properties]

Node(ref, pin) == [ref |-> ref, pin |-> pin]

Net(code, nm, nodes) == [code |-> code, name |-> nm, nodes |-> nodes]

\* the pin lists of the ADDER part: a vector input and a vector output
VectorPins == <<Pin(s_1, n_A, s_input), Pin(s_2, n_Q, s_output)>>

\* a single-bit input and a bidirectional vector, a boolean input alone,
\* an input whose hint has no ':'
AdderPins ==
    {VectorPins,
     <<Pin(s_1, n_EN, s_input), Pin(s_2, n_IO, s_bidirectional)>>,
     <<Pin(s_1, n_F, s_input)>>,
     <<Pin(s_1, n_A7, s_input)>>}

\* nl.libparts: the ADDER part and the PARAMETER pseudo part
Libparts(pins) ==
    <<Libpart(s_ADDER, <<Property(f_DW, s_4)>>, pins),
      Libpart(s_PARAMETER, <<>>, <<Pin(s_1, s_empty, s_output)>>)>>

\* nl.components: a parameter, two instances with a width property each
\* and an output port
ParameterComponents ==
    <<Comp(s_X1, s_DW, s_PARAMETER,
           <<Property(s_TYPE, s_integer), Property(s_DEFAULT, s_4)>>),
      Comp(s_U1, s_ADDER, s_ADDER, <<Property(f_DW, s_4)>>),
      Comp(s_U2, s_ADDER, s_ADDER, <<Property(f_DW, e_2x2)>>),
      Comp(s_X2, n_dout, s_OUT, <<>>)>>

\* a constant, an instance without properties, an instance of a part that
\* has no definition and an input port
ConstantComponents ==
    <<Comp(s_X1, s_5, s_CONSTANT, <<Property(s_NAME, s_K)>>),
      Comp(s_U1, s_ADDER, s_ADDER, <<>>),
      Comp(s_U3, s_MISSING, s_MISSING, <<>>),
      Comp(s_X2, n_clk, s_IN, <<Property(s_TYPE, s_unsigned)>>)>>

\* the pin lists under the second components: the vector pins, two
\* fixed-point pins, a boolean input alone
ConstantPins ==
    {VectorPins,
     <<Pin(s_1, n_P, s_input), Pin(s_2, n_R, s_output)>>,
     <<Pin(s_1, n_F, s_input)>>}

\* the documents: every pin list of AdderPins under the first components,
\* every one of ConstantPins under the second
\* nl.libparts with the ADDER part of two libraries: the vector pins in one,
\* a single-bit input in the other
TwoLibraries ==
    <<Libpart(s_ADDER, <<Property(f_DW, s_4)>>, VectorPins),
      Libpart(s_ADDER, <<>>, <<Pin(s_1, n_EN, s_input)>>),
      Libpart(s_PARAMETER, <<>>, <<Pin(s_1, s_empty, s_output)>>)>>

Documents ==
    {[libparts |-> Libparts(pins), components |-> ParameterComponents] :
        pins \in AdderPins}
    \cup {[libparts |-> Libparts(pins), components |-> ConstantComponents] :
             pins \in ConstantPins}
    \cup {[libparts |-> TwoLibraries, components |-> ParameterComponents]}

NetNames == {net_unc, net_data}

NodePool == {Node(s_U1, s_1), Node(s_U1, s_2), Node(s_U2, s_1),
             Node(s_X1, s_1), Node(s_X2, s_1)}

\* every sequence of seqs, and each of them with one more element of S
Extend(seqs, S) == seqs \cup {Append(s, x) : s \in seqs, x \in S}

RECURSIVE SeqsUpTo(_, _)
\* the sequences over S of length at most n
SeqsUpTo(S, n) == IF n = 0 THEN {<<>>} ELSE Extend(SeqsUpTo(S, n - 1), S)

RECURSIVE NodeCount(_)
NodeCount(nets) ==
    IF nets = <<>> THEN 0 ELSE Len(Head(nets).nodes) + NodeCount(Tail(nets))

\* the nets the document may hold next; the net codes fall along the list,
\* so that source order and code order differ
NextNets ==
    {Net(IntToStr(MaxNets - Len(nl_nets)), nm, nodes) :
        nm \in NetNames,
        nodes \in SeqsUpTo(NodePool, MaxNodes - NodeCount(nl_nets))}

NoPort == Port(s_empty, s_empty, s_empty)

NoSignal == Signal(s_empty, s_empty, s_empty, <<>>)

DecodeIdle ==
    /\ dpc = "idle"
    /\ dname = s_empty
    /\ dgens = <<>>
    /\ deval = FALSE
    /\ dport = NoPort

\* align_on_pipe is not being exercised on its own
AlignIdle ==
    /\ apc = "idle"
    /\ adoc = s_empty
    /\ aout = s_empty

\* parse_portsize_part is not being exercised on its own
EvalIdle ==
    /\ epc = "idle"
    /\ etokens = <<>>
    /\ esize = s_empty
    /\ egens = <<>>
    /\ eresult = PyRaise

\* no context of an earlier run
NoRun == [pc |-> "idle", lists |-> <<>>, heap |-> <<>>]

\* generate_code is called once
RerunIdle ==
    /\ run = 0
    /\ rnets = <<>>
    /\ first = NoRun

\* the property loops are not being exercised on their own
OverrideIdle ==
    /\ opc = "idle"
    /\ otokens = <<>>
    /\ oprops = <<>>

(***************************************************************************)
(* generate_code                                                           *)
(***************************************************************************)
Init ==
    /\ pc = "libparts"
    /\ \E doc \in Documents :
          /\ nl_libparts = doc.libparts
          /\ nl_components = doc.components
    /\ nl_nets = <<>>
    /\ idx = 1
    /\ generic_list = <<>>
    /\ port_list = <<>>
    /\ constant_list = <<>>
    /\ signal_list = <<>>
    /\ component_list = <<>>
    /\ instance_list = <<>>
    /\ library_list = <<>>
    /\ direct_connects = [r \in {} |-> s_empty]
    /\ port_heap = <<>>
    /\ name = s_empty
    /\ skip = FALSE
    /\ signal = NoSignal
    /\ target_writes = <<>>
    /\ DecodeIdle
    /\ EvalIdle
    /\ AlignIdle
    /\ RerunIdle
    /\ OverrideIdle

\* component_list.append(component), the ports of the definition allocated
AppendDefinition(component) ==
    /\ component_list' =
           Append(component_list,
                  Component(component.name, s_empty,
                            NewAddrs(Len(port_heap), Len(component.ports)),
                            component.properties, 0))
    /\ port_heap' = port_heap \o component.ports
    /\ target_writes' = target_writes \o [k \in DOMAIN component.ports |-> 0]

\* for libpart in nl.libparts
LibpartStep ==
    /\ pc = "libparts"
    /\ idx <= Len(nl_libparts)
    /\ IF nl_libparts[idx].part \in PseudoParts
       THEN UNCHANGED <<component_list, port_heap, target_writes>>
       ELSE AppendDefinition(from_libpart(nl_libparts[idx]))
    /\ idx' = idx + 1
    /\ UNCHANGED <<pc, nl_libparts, nl_components, nl_nets, generic_list,
                   port_list, constant_list, signal_list, instance_list,
                   library_list, direct_connects, name, skip, signal, hvars>>

LibpartsEnd ==
    /\ pc = "libparts"
    /\ idx > Len(nl_libparts)
    /\ pc' = "parameters"
    /\ idx' = 1
    /\ UNCHANGED <<nl_libparts, nl_components, nl_nets, generic_list,
                   port_list, constant_list, signal_list, component_list,
                   instance_list, library_list, direct_connects, port_heap,
                   name, skip, signal, target_writes, hvars>>

\* a generic or constant with vhdl_type = typestr
Typed(gen) == [gen EXCEPT !.vhdl_type = gen.typestr]

\* gen.value = gen.default
WithValue(gen) == [gen EXCEPT !.value = gen.default]

\* the Generic of a PARAMETER component
NewParameter(comp) ==
    WithValue(Typed(Generic(comp.value,
                            find_property(comp.properties, s_TYPE, s_integer),
                            find_property(comp.properties, s_DEFAULT, s_0),
                            s_empty)))

\* the Generic of a CONSTANT component
NewConstant(comp) ==
    Typed(Generic(find_property(comp.properties, s_NAME, s_ERROR_NO_NAME),
                  find_property(comp.properties, s_TYPE, s_integer),
                  comp.value, s_empty))

\* Register with key and value exchanged
RegisterByName(ref, nm) == direct_connects' = (nm :> ref) @@ direct_connects

\* direct_connects[ref] = nm
Register(ref, nm) == direct_connects' = (ref :> nm) @@ direct_connects

AppendGeneric(comp, gen) ==
    /\ generic_list' = Append(generic_list, gen)
    /\ Register(comp.ref, gen.name)

AppendConstant(comp, const) ==
    /\ constant_list' = Append(constant_list, const)
    /\ Register(comp.ref, const.name)

\* the first loop over nl.components: PARAMETER and CONSTANT
ParameterStep ==
    /\ pc = "parameters"
    /\ idx <= Len(nl_components)
    /\ IF nl_components[idx].part = s_PARAMETER
       THEN /\ AppendGeneric(nl_components[idx], NewParameter(nl_components[idx]))
            /\ UNCHANGED constant_list
       ELSE IF nl_components[idx].part = s_CONSTANT
       THEN /\ AppendConstant(nl_components[idx], NewConstant(nl_components[idx]))
            /\ UNCHANGED generic_list
       ELSE UNCHANGED <<generic_list, constant_list, direct_connects>>
    /\ idx' = idx + 1
    /\ UNCHANGED <<pc, nl_libparts, nl_components, nl_nets, port_list,
                   signal_list, component_list, instance_list, library_list,
                   port_heap, name, skip, signal, target_writes, hvars>>

ParametersEnd ==
    /\ pc = "parameters"
    /\ idx > Len(nl_components)
    /\ pc' = "components"
    /\ idx' = 1
    /\ UNCHANGED <<nl_libparts, nl_components, nl_nets, generic_list,
                   port_list, constant_list, signal_list, component_list,
                   instance_list, library_list, direct_connects, port_heap,
                   name, skip, signal, target_writes, hvars>>

\* comp.libsource.part.lower() of a boundary part
Lower(part) ==
    IF part = s_IN THEN s_in ELSE IF part = s_OUT THEN s_out ELSE s_inout

\* the Port of an IN, OUT or INOUT component, decoded without evaluation
NewBoundaryPort(comp, gens) ==
    update_from_name(
        [Port(comp.value, s_empty, Lower(comp.part))
            EXCEPT !.typestr = find_property(comp.properties, s_TYPE, s_std_logic)],
        gens, FALSE).port

AppendPort(comp, port) ==
    /\ port_list' = Append(port_list, port)
    /\ Register(comp.ref, port.name)

\* the instance and the heap behind the port loop
Built(component, decoded) ==
    [raised |-> decoded.raised, component |-> component, heap |-> decoded.heap]

\* the port loop of an instance whose property loops had the outcome props
DecodeInstance(linked, props) ==
    IF props.raised
    THEN [raised |-> TRUE,
          component |-> [linked.component EXCEPT !.properties = props.properties],
          heap |-> linked.heap]
    ELSE Built([linked.component EXCEPT !.properties = props.properties],
               DecodePorts(linked.heap, linked.component.ports, 1,
                           props.properties, TRUE))

\* the two property loops of a linked instance
ResolveProperties(linked) ==
    DecodeInstance(linked,
        EvalProperties(SubstituteProperties(linked.component.properties, 1), 1))

\* the Instance of a component: definition linked, properties resolved,
\* ports decoded; raised when eval or the decoder raises
BuildInstance(comp, defs, heap) ==
    ResolveProperties(LinkLibpart(from_comp(comp), heap, defs, 1))

\* instance_list.append(component), unless an exception ended the run
AppendInstance(built) ==
    /\ port_heap' = built.heap
    /\ target_writes' =
           target_writes \o [k \in 1..(Len(built.heap) - Len(port_heap)) |-> 0]
    /\ instance_list' = IF built.raised THEN instance_list
                        ELSE Append(instance_list, built.component)
    /\ pc' = IF built.raised THEN "raised" ELSE pc

\* the second loop over nl.components: boundary ports and instances
ComponentStep ==
    /\ pc = "components"
    /\ idx <= Len(nl_components)
    /\ IF nl_components[idx].part \in {s_IN, s_OUT, s_INOUT}
       THEN /\ AppendPort(nl_components[idx],
                          NewBoundaryPort(nl_components[idx], generic_list))
            /\ UNCHANGED <<pc, instance_list, port_heap, target_writes>>
       ELSE IF nl_components[idx].part \in {s_PARAMETER, s_CONSTANT}
       THEN UNCHANGED <<pc, port_list, direct_connects, instance_list,
                        port_heap, target_writes>>
       ELSE /\ AppendInstance(BuildInstance(nl_components[idx], component_list,
                                            port_heap))
            /\ UNCHANGED <<port_list, direct_connects>>
    /\ idx' = idx + 1
    /\ UNCHANGED <<nl_libparts, nl_components, nl_nets, generic_list,
                   constant_list, signal_list, component_list, library_list,
                   name, skip, signal, hvars>>

ComponentsEnd ==
    /\ pc = "components"
    /\ idx > Len(nl_components)
    /\ pc' = "generics"
    /\ idx' = 1
    /\ UNCHANGED <<nl_libparts, nl_components, nl_nets, generic_list,
                   port_list, constant_list, signal_list, component_list,
                   instance_list, library_list, direct_connects, port_heap,
                   name, skip, signal, target_writes, hvars>>

\* the loops over generic_list and constant_list
FinalizeGenerics ==
    /\ pc = "generics"
    /\ generic_list' = [k \in DOMAIN generic_list |-> FinalizeGeneric(generic_list[k])]
    /\ constant_list' = [k \in DOMAIN constant_list |-> FinalizeGeneric(constant_list[k])]
    /\ pc' = "definitions"
    /\ UNCHANGED <<nl_libparts, nl_components, nl_nets, idx, port_list,
                   signal_list, component_list, instance_list, library_list,
                   direct_connects, port_heap, name, skip, signal,
                   target_writes, hvars>>

\* the definitions and the heap behind the loop
StoreDefinitions(r) ==
    /\ component_list' = r.defs
    /\ port_heap' = r.heap

\* the loop over component_list that types properties and ports
TypeDefinitions ==
    /\ pc = "definitions"
    /\ StoreDefinitions(DecodeDefinitions(component_list, port_heap, 1))
    /\ pc' = "nets"
    /\ UNCHANGED <<nl_libparts, nl_components, nl_nets, idx, generic_list,
                   port_list, constant_list, signal_list, instance_list,
                   library_list, direct_connects, name, skip, signal,
                   target_writes, hvars>>

\* the ports and the assignment counts behind the node loops of a net
StoreTargets(st) ==
    /\ port_heap' = st.heap
    /\ target_writes' = st.writes

\* the body of the net loop for a net whose name starts with 'unconnected'
ReadUnconnected(net) ==
    /\ StartsWith(net.name, s_unconnected)
    /\ nl_nets' = Append(nl_nets, net)
    /\ StoreTargets(UnconnectedNodes(Store(port_heap, target_writes),
                                     instance_list, net.nodes, 1))
    /\ UNCHANGED <<pc, nl_libparts, nl_components, idx, generic_list,
                   port_list, constant_list, signal_list, component_list,
                   instance_list, library_list, direct_connects, name, skip,
                   signal, hvars>>

\* a net whose name starts with 'unconnected'
NetUnconnected ==
    /\ pc = "nets"
    /\ run = 0
    /\ Len(nl_nets) < MaxNets
    /\ \E net \in NextNets : ReadUnconnected(net)

\* AppendSignal that puts the signal in front of the list
AppendSignalInFront(dc, sig) ==
    /\ name' = dc.name
    /\ skip' = dc.skip
    /\ signal' = sig
    /\ signal_list' = IF dc.skip THEN signal_list ELSE <<sig>> \o signal_list

\* AppendSignal without the test of skip
AppendSignalAlways(dc, sig) ==
    /\ name' = dc.name
    /\ skip' = dc.skip
    /\ signal' = sig
    /\ signal_list' = Append(signal_list, sig)

\* if not skip: signal_list.append(signal)
AppendSignal(dc, sig) ==
    /\ name' = dc.name
    /\ skip' = dc.skip
    /\ signal' = sig
    /\ signal_list' = IF dc.skip THEN signal_list ELSE Append(signal_list, sig)

\* the signal typed from its connections r
TypeSignal(net, dc, r) ==
    /\ StoreTargets(r.st)
    /\ AppendSignal(dc, Signal(dc.name, net.code,
                               SignalType(r.st.heap, r.connections, 1, s_empty),
                               r.connections))

\* the Signal of a net whose direct-connect scan had the outcome dc
ConnectNet(net, dc) ==
    TypeSignal(net, dc,
               ConnectNodes(Store(port_heap, target_writes), <<>>,
                            instance_list, net.nodes, 1, dc.name))

\* the body of the net loop for any other net
ReadSignal(net) ==
    /\ ~StartsWith(net.name, s_unconnected)
    /\ nl_nets' = Append(nl_nets, net)
    /\ ConnectNet(net, DirectConnect(net.nodes, direct_connects,
                                     SignalName(net.name)))
    /\ UNCHANGED <<pc, nl_libparts, nl_components, idx, generic_list,
                   port_list, constant_list, component_list, instance_list,
                   library_list, direct_connects, hvars>>

\* any other net
NetSignal ==
    /\ pc = "nets"
    /\ run = 0
    /\ Len(nl_nets) < MaxNets
    /\ \E net \in NextNets : ReadSignal(net)

\* nl.nets is exhausted (of a single run, the nets read so far are the nets)
NetsEnd ==
    /\ pc = "nets"
    /\ Len(nl_nets) = Len(rnets) \/ run = 0
    /\ pc' = "libraries"
    /\ UNCHANGED <<nl_libparts, nl_components, nl_nets, idx, generic_list,
                   port_list, constant_list, signal_list, component_list,
                   instance_list, library_list, direct_connects, port_heap,
                   name, skip, signal, target_writes, hvars>>

\* library_list_dict and library_list.extend
InferLibraries ==
    /\ pc = "libraries"
    /\ library_list' =
           library_list
           \o ScanLibraries(<<s_lib_1164>>,
                  TypesOf(generic_list) \o TypesOf(port_list)
                  \o TypesOf(constant_list)
                  \o CompTypes(port_heap, component_list \o instance_list))
    /\ pc' = "separators"
    /\ UNCHANGED <<nl_libparts, nl_components, nl_nets, idx, generic_list,
                   port_list, constant_list, signal_list, component_list,
                   instance_list, direct_connects, port_heap, name, skip,
                   signal, target_writes, hvars>>

\* strip off the ending commas and semicolons
StripSeparators ==
    /\ pc = "separators"
    /\ generic_list' = StripLast(generic_list)
    /\ port_list' = StripLast(port_list)
    /\ component_list' = StripProperties(component_list)
    /\ instance_list' = StripProperties(instance_list)
    /\ port_heap' = StripPorts(port_heap, component_list \o instance_list, 1)
    /\ pc' = "done"
    /\ UNCHANGED <<nl_libparts, nl_components, nl_nets, idx, constant_list,
                   signal_list, library_list, direct_connects, name, skip,
                   signal, target_writes, hvars>>

Next ==
    \/ LibpartStep \/ LibpartsEnd
    \/ ParameterStep \/ ParametersEnd
    \/ ComponentStep \/ ComponentsEnd
    \/ FinalizeGenerics \/ TypeDefinitions
    \/ NetUnconnected \/ NetSignal \/ NetsEnd
    \/ InferLibraries \/ StripSeparators

Spec == Init /\ [][Next]_vars

(***************************************************************************)
(* Two runs of generate_code on one document: the nets are part of the     *)
(* document from the start, and the second run begins when the first has   *)
(* ended, with the lists of the first kept aside for comparison.           *)
(***************************************************************************)
\* nl.nets of the documents that are run twice
RerunNets ==
    {<<>>,
     <<Net(s_2, net_data, <<Node(s_U1, s_1), Node(s_U2, s_1)>>),
       Net(s_1, net_unc, <<Node(s_U1, s_2)>>)>>,
     <<Net(s_2, net_data, <<Node(s_X2, s_1), Node(s_U1, s_1)>>),
       Net(s_1, net_data, <<Node(s_U1, s_2), Node(s_U2, s_2)>>)>>,
     <<Net(s_1, net_unc, <<Node(s_U2, s_1), Node(s_U1, s_1)>>)>>,
     <<Net(s_1, net_data,
           <<Node(s_X1, s_1), Node(s_X2, s_1), Node(s_U1, s_1)>>)>>,
     <<Net(s_1, net_data,
           <<Node(s_U1, s_1), Node(s_X2, s_1), Node(s_X1, s_1)>>)>>}

\* what a run hands to the template, and how the run ended
Context ==
    [pc |-> pc,
     lists |-> <<library_list, generic_list, port_list, constant_list,
                 signal_list, component_list, instance_list>>,
     heap |-> port_heap]

RerunInit ==
    /\ pc = "libparts"
    /\ \E doc \in Documents :
          /\ nl_libparts = doc.libparts
          /\ nl_components = doc.components
    /\ nl_nets = <<>>
    /\ idx = 1
    /\ generic_list = <<>>
    /\ port_list = <<>>
    /\ constant_list = <<>>
    /\ signal_list = <<>>
    /\ component_list = <<>>
    /\ instance_list = <<>>
    /\ library_list = <<>>
    /\ direct_connects = [r \in {} |-> s_empty]
    /\ port_heap = <<>>
    /\ name = s_empty
    /\ skip = FALSE
    /\ signal = NoSignal
    /\ target_writes = <<>>
    /\ run = 1
    /\ rnets \in RerunNets
    /\ first = NoRun
    /\ DecodeIdle
    /\ EvalIdle
    /\ AlignIdle
    /\ OverrideIdle

\* the next net of the document starts with 'unconnected'
ReplayUnconnected ==
    /\ pc = "nets"
    /\ run # 0
    /\ Len(nl_nets) < Len(rnets)
    /\ ReadUnconnected(rnets[Len(nl_nets) + 1])

\* the next net of the document is any other net
ReplaySignal ==
    /\ pc = "nets"
    /\ run # 0
    /\ Len(nl_nets) < Len(rnets)
    /\ ReadSignal(rnets[Len(nl_nets) + 1])

\* Rerun with the library list of the first run still in place
RerunKeepingLibraries ==
    /\ run = 1
    /\ pc \in {"done", "raised"}
    /\ first' = Context
    /\ run' = 2
    /\ pc' = "libparts"
    /\ nl_nets' = <<>>
    /\ idx' = 1
    /\ generic_list' = <<>>
    /\ port_list' = <<>>
    /\ constant_list' = <<>>
    /\ signal_list' = <<>>
    /\ component_list' = <<>>
    /\ instance_list' = <<>>
    /\ direct_connects' = [r \in {} |-> s_empty]
    /\ port_heap' = <<>>
    /\ name' = s_empty
    /\ skip' = FALSE
    /\ signal' = NoSignal
    /\ target_writes' = <<>>
    /\ UNCHANGED <<library_list, nl_libparts, nl_components, rnets, dvars,
                   evars, avars, ovars>>

\* generate_code is called again on the same document: every list is a
\* local that starts empty, the classes hold no list of their own
Rerun ==
    /\ run = 1
    /\ pc \in {"done", "raised"}
    /\ first' = Context
    /\ run' = 2
    /\ pc' = "libparts"
    /\ nl_nets' = <<>>
    /\ idx' = 1
    /\ generic_list' = <<>>
    /\ port_list' = <<>>
    /\ constant_list' = <<>>
    /\ signal_list' = <<>>
    /\ component_list' = <<>>
    /\ instance_list' = <<>>
    /\ library_list' = <<>>
    /\ direct_connects' = [r \in {} |-> s_empty]
    /\ port_heap' = <<>>
    /\ name' = s_empty
    /\ skip' = FALSE
    /\ signal' = NoSignal
    /\ target_writes' = <<>>
    /\ UNCHANGED <<nl_libparts, nl_components, rnets, dvars, evars, avars,
                   ovars>>

RerunNext ==
    \/ LibpartStep \/ LibpartsEnd
    \/ ParameterStep \/ ParametersEnd
    \/ ComponentStep \/ ComponentsEnd
    \/ FinalizeGenerics \/ TypeDefinitions
    \/ ReplayUnconnected \/ ReplaySignal \/ NetsEnd
    \/ InferLibraries \/ StripSeparators
    \/ Rerun

RerunSpec == RerunInit /\ [][RerunNext]_vars

(***************************************************************************)
(* Decoder harness: one Port built from an enumerated name is decoded as   *)
(* generate_code decodes it (with evaluation for instance ports, without   *)
(* for definition and boundary ports), then decoded once more.             *)
(***************************************************************************)
Bounds == (0 - MaxNeg)..MaxBound

Idents == {<<"x">>, <<"A", "1">>}

\* TYPENAME of the space-separated form
TypeNames == {s_signed, s_unsigned, s_slv, <<"m", "y", "_", "t">>,
              <<"b", "i", "t", "s">>}

FamilyPrefixes == {s_u, s_uf, s_s, s_sf}

\* the hint [prefix]H:L
RangeHint(prefix, H, L) == prefix \o IntToStr(H) \o <<":">> \o IntToStr(L)

\* name(hint)
Hinted(id, hint) == id \o <<"(">> \o hint \o <<")">>

IntRangeHints ==
    {RangeHint(pre, H, L) :
        pre \in {s_empty} \cup FamilyPrefixes \cup {tn \o s_blank : tn \in TypeNames},
        H \in Bounds, L \in Bounds}

SymbolicHints ==
    {s_DW \o <<"-", "1", ":", "0">>,               \* DW-1:0
     s_u \o s_DW \o <<"-", "1", ":", "0">>,        \* uDW-1:0
     s_DW \o <<":", "1">>,                         \* DW:1
     <<"2", "*", "D", "W", "-", "1", ":", "D", "W">>,   \* 2*DW-1:DW
     <<"7">>,                                      \* no ':'
     s_DW,                                         \* DW, no ':'
     <<"1", "/", "0", ":", "0">>,                  \* 1/0:0
     s_DW \o <<":", "1", "/", "0">>}               \* DW:1/0

WordHints == {s_b, s_integer}

\* names without a hint, and names whose hint lacks the closing bracket
PlainNames == Idents \cup {<<"c", "l", "k", "_", "i">>}

MalformedNames ==
    {id \o <<"(">> \o h : id \in Idents,
                         h \in {s_empty, <<"3", ":", "0">>, s_b, <<"3", ":", "0", ")", "x">>}}

DecodeNames ==
    {Hinted(id, h) : id \in Idents, h \in IntRangeHints \cup SymbolicHints \cup WordHints}
    \cup PlainNames \cup MalformedNames

DecodeGenericLists ==
    {<<>>,
     <<Generic(s_DW, s_integer, s_empty, <<"4">>)>>,
     <<Generic(s_DW, s_integer, s_empty, <<"N">>)>>,
     <<Generic(s_DW, <<"r", "e", "a", "l">>, s_empty, <<"4">>)>>}

\* generate_code is not running
PipelineIdle ==
    /\ pc = "idle"
    /\ nl_libparts = <<>>
    /\ nl_components = <<>>
    /\ nl_nets = <<>>
    /\ idx = 1
    /\ generic_list = <<>>
    /\ port_list = <<>>
    /\ constant_list = <<>>
    /\ signal_list = <<>>
    /\ component_list = <<>>
    /\ instance_list = <<>>
    /\ library_list = <<>>
    /\ direct_connects = [r \in {} |-> s_empty]
    /\ port_heap = <<>>
    /\ name = s_empty
    /\ skip = FALSE
    /\ signal = NoSignal
    /\ target_writes = <<>>

DecodeInit ==
    /\ PipelineIdle
    /\ EvalIdle
    /\ AlignIdle
    /\ RerunIdle
    /\ OverrideIdle
    /\ dpc = "start"
    /\ dname \in DecodeNames
    /\ dgens \in DecodeGenericLists
    /\ deval \in BOOLEAN
    /\ dport = Port(dname, s_1, <<"i", "n">>)

\* the port and the position behind a call with outcome r
Decoded(r, done) ==
    /\ dport' = r.port
    /\ dpc' = IF r.raised THEN "raised" ELSE done

\* port.update_from_name(gens, do_eval)
Decode ==
    /\ dpc = "start"
    /\ Decoded(update_from_name(dport, dgens, deval), "decoded")
    /\ UNCHANGED <<dname, dgens, deval, pvars, evars, avars, rvars, ovars>>

\* the same call on the port as the first call left it
Redecode ==
    /\ dpc = "decoded"
    /\ Decoded(update_from_name(dport, dgens, deval), "redecoded")
    /\ UNCHANGED <<dname, dgens, deval, pvars, evars, avars, rvars, ovars>>

DecodeNext == Decode \/ Redecode

DecodeSpec == DecodeInit /\ [][DecodeNext]_vars

(***************************************************************************)
(* Evaluator harness: parse_portsize_part is called once on a width        *)
(* expression, given token by token so that the names in it are known.     *)
(***************************************************************************)
s_7 == <<"7">>
s_8 == <<"8">>
s_3 == <<"3">>
s_W == <<"W">>
s_N == <<"N">>
s_real == <<"r", "e", "a", "l">>

Literals == {s_0, s_2, s_7}

GenericNames == {s_W, s_DW}

Operands == Literals \cup GenericNames

Operators == {<<"+">>, <<"-">>, <<"*">>, <<"/">>}

\* a, a op b, (a op b) op c and a op b op c
Expressions ==
    {<<a>> : a \in Operands}
    \cup {<<a, o, b>> : a \in Operands, o \in Operators, b \in Operands}
    \cup {<<<<"(">>, ab[1], ab[2], ab[3], <<")">>, o, c>> :
             ab \in Operands \X Operators \X Operands,
             o \in Operators, c \in Operands}
    \cup {<<ab[1], ab[2], ab[3], o, c>> :
             ab \in Operands \X Operators \X Operands,
             o \in Operators, c \in Operands}

\* expressions that are not arithmetic: an unbalanced bracket, an unknown
\* name, an empty string
Irregular ==
    {<<<<"(">>, s_2>>, <<s_2, <<")">>>>, <<s_K, <<"+">>, s_DW>>, <<>>,
     <<s_DW, <<"-">>, s_1, <<" ">>>>}

EvalGenericLists ==
    {<<>>,
     <<Generic(s_W, s_integer, s_empty, s_2), Generic(s_DW, s_integer, s_empty, s_8)>>,
     <<Generic(s_DW, s_integer, s_empty, s_8), Generic(s_W, s_integer, s_empty, s_2)>>,
     <<Generic(s_W, s_real, s_empty, s_2), Generic(s_DW, s_integer, s_empty, s_8)>>,
     <<Generic(s_W, s_integer, s_empty, s_N), Generic(s_DW, s_integer, s_empty, s_8)>>,
     <<Generic(s_DW, s_integer, s_empty, s_8), Generic(s_DW, s_integer, s_empty, s_3),
       Generic(s_W, s_integer, s_empty, s_2)>>}

EvalInit ==
    /\ PipelineIdle
    /\ DecodeIdle
    /\ AlignIdle
    /\ RerunIdle
    /\ OverrideIdle
    /\ epc = "start"
    /\ etokens \in Expressions \cup Irregular
    /\ esize = Flatten(etokens)
    /\ egens \in EvalGenericLists
    /\ eresult = PyRaise

\* the value and the position behind a call with outcome r
Parsed(r) ==
    /\ eresult' = r
    /\ epc' = IF r.k = "raise" THEN "raised" ELSE "parsed"

\* parse_portsize_part(size_part, generic_list)
Parse ==
    /\ epc = "start"
    /\ Parsed(parse_portsize_part(PyStr(esize), egens))
    /\ UNCHANGED <<etokens, esize, egens, pvars, dvars, avars, rvars, ovars>>

EvalNext == Parse

EvalSpec == EvalInit /\ [][EvalNext]_vars

(***************************************************************************)
(* align_on_pipe                                                           *)
(***************************************************************************)
\* a list without its last element when that is the empty string
DropLastEmpty(parts) ==
    IF parts[Len(parts)] = <<>> THEN SubSeq(parts, 1, Len(parts) - 1) ELSE parts

\* doc.splitlines(), for a text whose only line boundary is '\n'
SplitLines(doc) == DropLastEmpty(Split(doc, "\n"))

\* line.split('|')
PipeSplit(line) == Split(line, "|")

\* segs behind 'if cur_seg: segs.append(cur_seg)'
Flush(segs, cur_seg) == IF cur_seg # <<>> THEN Append(segs, cur_seg) ELSE segs

RECURSIVE Segments(_, _, _, _, _)
\* the first loop, from the k-th line on: a line whose number of parts
\* differs from n_splits ends the segment and begins the next
Segments(lines, k, n_splits, segs, cur_seg) ==
    IF k > Len(lines) THEN Flush(segs, cur_seg)
    ELSE IF Len(PipeSplit(lines[k])) # n_splits
    THEN Segments(lines, k + 1, Len(PipeSplit(lines[k])), Flush(segs, cur_seg),
                  <<lines[k]>>)
    ELSE Segments(lines, k + 1, n_splits, segs, Append(cur_seg, lines[k]))

\* the list max of a segment to which only the first line contributes
FirstLineWidths(seg) ==
    [i \in 1..Len(PipeSplit(seg[1])) |-> Len(PipeSplit(seg[1])[i])]

\* the list max of a segment: per column the greatest length of a part
MaxWidths(seg) ==
    [i \in 1..Len(PipeSplit(seg[1])) |->
        SetMax({0} \cup {Len(PipeSplit(seg[m])[i]) : m \in DOMAIN seg})]

\* f'{part:<{width}}'
Pad(part, width) ==
    IF Len(part) >= width THEN part
    ELSE part \o [k \in 1..(width - Len(part)) |-> " "]

\* new_line of the parts of a line
NewLine(parts, max) == Flatten([i \in DOMAIN max |-> Pad(parts[i], max[i])])

\* the lines of one segment, aligned
AlignSegment(seg, max) == [m \in DOMAIN seg |-> NewLine(PipeSplit(seg[m]), max)]

\* the second loop: out
AlignSegments(segs) ==
    Flatten([s \in DOMAIN segs |-> AlignSegment(segs[s], MaxWidths(segs[s]))])

RECURSIVE JoinLines(_)
\* '\n'.join(lines)
JoinLines(lines) ==
    IF lines = <<>> THEN <<>>
    ELSE IF Len(lines) = 1 THEN lines[1]
    ELSE lines[1] \o <<"\n">> \o JoinLines(Tail(lines))

align_on_pipe(doc) ==
    JoinLines(AlignSegments(Segments(SplitLines(doc), 1, 0, <<>>, <<>>)))

(***************************************************************************)
(* Alignment harness: align_on_pipe is called once on a text of up to      *)
(* MaxLines lines.                                                         *)
(***************************************************************************)
l_abc == <<"a", "|", "b", "b", "|", "c">>
l_aaabcc == <<"a", "a", "a", "|", "b", "|", "c", "c">>

\* lines of three parts, of two parts and of one part, the empty line
AlignLines ==
    {l_abc, l_aaabcc,
     <<"y", "y", "|", "z">>, <<"c", "c", "c", "|", "d">>, <<"|">>,
     <<"x">>, <<"q", "q">>, <<>>}

AlignInit ==
    /\ PipelineIdle
    /\ DecodeIdle
    /\ EvalIdle
    /\ RerunIdle
    /\ OverrideIdle
    /\ apc = "start"
    /\ adoc \in {JoinLines(ls) : ls \in SeqsUpTo(AlignLines, MaxLines)}
    /\ aout = s_empty

\* hdl = align_on_pipe(hdl)
Align ==
    /\ apc = "start"
    /\ aout' = align_on_pipe(adoc)
    /\ apc' = "aligned"
    /\ UNCHANGED <<adoc, pvars, dvars, evars, rvars, ovars>>

AlignNext == Align

AlignSpec == AlignInit /\ [][AlignNext]_vars

(***************************************************************************)
(* The property loops of an instance on their own: the properties A, B and *)
(* C of one instance, with values that are integers or expressions over    *)
(* the other names, in every listing order.                                *)
(***************************************************************************)
p_A == <<"A">>
p_B == <<"B">>
p_C == <<"C">>
t_plus == <<"+">>
t_times == <<"*">>

Override(nm, tokens) == [name |-> nm, tokens |-> tokens]

\* the properties of the instance, by name
OverrideSets ==
    {<<Override(p_A, a), Override(p_B, b), Override(p_C, <<s_3>>)>> :
        a \in {<<p_B, t_plus, s_1>>, <<p_B, t_times, s_2>>, <<p_C, t_plus, p_B>>,
               <<p_B>>},
        b \in {<<p_C, t_times, s_2>>, <<p_C, t_plus, s_1>>, <<s_4>>}}

\* the listing orders of three properties
Orders ==
    {<<1, 2, 3>>, <<1, 3, 2>>, <<2, 1, 3>>, <<2, 3, 1>>, <<3, 1, 2>>, <<3, 2, 1>>}

\* the properties in every listing order
OverrideLists ==
    {[k \in 1..3 |-> set[order[k]]] : set \in OverrideSets, order \in Orders}

OverrideInit ==
    /\ PipelineIdle
    /\ DecodeIdle
    /\ EvalIdle
    /\ AlignIdle
    /\ RerunIdle
    /\ opc = "start"
    /\ otokens \in OverrideLists
    /\ oprops = [k \in DOMAIN otokens |->
                    Generic(otokens[k].name, s_integer, s_empty,
                            Flatten(otokens[k].tokens))]

\* the properties and the position behind the two loops with outcome r
Resolved(r) ==
    /\ oprops' = r.properties
    /\ opc' = IF r.raised THEN "raised" ELSE "resolved"

\* the two loops over component.properties
Resolve ==
    /\ opc = "start"
    /\ Resolved(EvalProperties(SubstituteProperties(oprops, 1), 1))
    /\ UNCHANGED <<otokens, pvars, dvars, evars, avars, rvars>>

OverrideNext == Resolve

OverrideSpec == OverrideInit /\ [][OverrideNext]_vars

(***************************************************************************)
(* Properties of the net loop.                                             *)
(***************************************************************************)
IsUnconnected(net) == StartsWith(net.name, s_unconnected)

\* the nodes of a net whose reference is a key of the direct-connect table
TableNodes(net) ==
    {k \in DOMAIN net.nodes : net.nodes[k].ref \in DOMAIN direct_connects}

IsOrdinary(net) == ~IsUnconnected(net) /\ TableNodes(net) = {}

\* the nets read so far that are neither 'unconnected' nor direct-connect
OrdinaryNets == SelectSeq(nl_nets, IsOrdinary)

\* the ports of the instances
InstancePorts ==
    {a \in 1..Len(port_heap) :
        \E i \in DOMAIN instance_list :
           \E m \in DOMAIN instance_list[i].ports : instance_list[i].ports[m] = a}

\* sig is the Signal of net: one Connection per node, in node order
SignalOf(sig, net) ==
    /\ sig.code = net.code
    /\ Len(sig.connections) = Len(net.nodes)
    /\ \A k \in DOMAIN net.nodes :
          /\ sig.connections[k].ref = net.nodes[k].ref
          /\ sig.connections[k].pin = net.nodes[k].pin

\* C1: every net read so far that is not 'unconnected' and has no node in
\* the direct-connect table has exactly one Signal in signal_list, in net
\* order, and that Signal has one Connection per node of the net, in node
\* order, also for the nodes that resolve to no port.
C1_OneSignalPerOrdinaryNet ==
    /\ Len(signal_list) = Len(OrdinaryNets)
    /\ \A i \in DOMAIN signal_list : SignalOf(signal_list[i], OrdinaryNets[i])

\* an ordinary net of two nodes, one of which resolves to no port, has been
\* consolidated
C1_Witness ==
    /\ pc = "done"
    /\ \E i \in DOMAIN signal_list :
          /\ Len(signal_list[i].connections) = 2
          /\ signal_list[i].connections[1].port = 0
          /\ signal_list[i].connections[2].port # 0

\* node resolves to the port at address a: an instance of the node's
\* reference has the port, and the port's number is the node's pin
Resolves(node, a) ==
    \E i \in DOMAIN instance_list :
       /\ instance_list[i].instance_name = node.ref
       /\ \E m \in DOMAIN instance_list[i].ports : instance_list[i].ports[m] = a
       /\ port_heap[a].num = node.pin

\* the nodes of the nets read so far that resolve to the port at a
ResolvingNodes(a) ==
    UNION {{<<n, k>> : k \in {j \in DOMAIN nl_nets[n].nodes :
                                Resolves(nl_nets[n].nodes[j], a)}} :
           n \in DOMAIN nl_nets}

\* the zero literal of an input port's type
ZeroLiteral(port) ==
    IF port.vhdl_type = s_boolean THEN s_false
    ELSE IF port.vhdl_type = s_std_logic THEN s_bit0
    ELSE s_others0

\* C2 as claimed: when all nets are processed, the target of every instance
\* port was assigned at most once, and a port no net assigned has 'open' if
\* it is an output and the zero literal of its type if it is an input.
C2_TargetSetOnceOrDefaulted ==
    pc = "done" =>
        \A a \in InstancePorts :
           /\ target_writes[a] <= 1
           /\ target_writes[a] = 0 /\ port_heap[a].dirstr = s_out
                 => port_heap[a].target = s_open
           /\ target_writes[a] = 0 /\ port_heap[a].dirstr = s_in
                 => port_heap[a].target = ZeroLiteral(port_heap[a])

\* C2 as amended: the target of an instance port is assigned once for every
\* node of the nets read so far that resolves to the port, and the target
\* of a port no node resolves to is the empty string.
C2_TargetSetPerResolvingNode ==
    \A a \in InstancePorts :
       /\ target_writes[a] = Cardinality(ResolvingNodes(a))
       /\ target_writes[a] = 0 => port_heap[a].target = s_empty

\* all nets are processed, one pin was on two nodes and another on none
C2_Witness ==
    /\ pc = "done"
    /\ \E a \in InstancePorts : target_writes[a] = 2
    /\ \E a \in InstancePorts :
          target_writes[a] = 0 /\ port_heap[a].dirstr = s_out

\* exactly one of three
ExactlyOne(a, b, c) == (a /\ ~b /\ ~c) \/ (~a /\ b /\ ~c) \/ (~a /\ ~b /\ c)

\* the name and the skip mark are those of a direct-connect node of net
Renamed(net) ==
    /\ skip'
    /\ \E k \in TableNodes(net) : name' = direct_connects[net.nodes[k].ref]

\* what the step that reads net does to the signal list and the name, for
\* a net of the classes (i) unconnected, (ii) direct and (iii) ordinary
Classified(net, unconnected, direct, ordinary) ==
    /\ ExactlyOne(unconnected, direct, ordinary)
    /\ unconnected => signal_list' = signal_list /\ UNCHANGED <<name, skip>>
    /\ direct => signal_list' = signal_list /\ Renamed(net)
    /\ ordinary => Len(signal_list') = Len(signal_list) + 1
    /\ Len(signal_list') <= Len(signal_list) + 1
    /\ Len(signal_list') = Len(OrdinaryNets')

\* the net a step reads
NetRead == nl_nets'[Len(nl_nets')]

\* C3 as claimed: every net is in exactly one of the classes (i) its name
\* starts with 'unconnected', (ii) a node's reference is in the
\* direct-connect table, (iii) neither; a net of class (i) adds no Signal
\* and sets no name, one of class (ii) adds no Signal and takes the
\* registered name, one of class (iii) adds one Signal; no net adds more
\* than one Signal and there are as many Signals as nets of class (iii).
C3_ThreeClasses ==
    [][nl_nets' # nl_nets =>
          Classified(NetRead, IsUnconnected(NetRead), TableNodes(NetRead) # {},
                     IsOrdinary(NetRead))]_vars

\* C3 as amended: the same with class (ii) being the nets whose name does
\* not start with 'unconnected' and that have a node whose reference is in
\* the direct-connect table.
C3_ThreeClassesByPrecedence ==
    [][nl_nets' # nl_nets =>
          Classified(NetRead, IsUnconnected(NetRead),
                     ~IsUnconnected(NetRead) /\ TableNodes(NetRead) # {},
                     IsOrdinary(NetRead))]_vars

\* an 'unconnected' net with a node in the direct-connect table and an
\* ordinary net have been read, and one Signal stands
C3_Witness ==
    /\ \E n \in DOMAIN nl_nets :
          IsUnconnected(nl_nets[n]) /\ TableNodes(nl_nets[n]) # {}
    /\ \E n \in DOMAIN nl_nets : IsOrdinary(nl_nets[n])
    /\ Len(signal_list) = 1

\* some node of net resolves to the port at a
ResolvedBy(net, a) == \E k \in DOMAIN net.nodes : Resolves(net.nodes[k], a)

\* the target an 'unconnected' net is to give the port
TargetOfUnconnected(port, target) ==
    /\ port.dirstr = s_in /\ port.vhdl_type = s_boolean => target = s_false
    /\ port.dirstr = s_in /\ port.vhdl_type = s_std_logic => target = s_bit0
    /\ port.dirstr = s_in /\ port.vhdl_type \notin {s_boolean, s_std_logic}
          => target = s_others0
    /\ port.dirstr \in {s_out, s_inout} => target = s_open

\* the step that reads the 'unconnected' net
UnconnectedRead(net) ==
    /\ signal_list' = signal_list
    /\ Len(port_heap') = Len(port_heap)
    /\ \A a \in DOMAIN port_heap :
          IF ResolvedBy(net, a)
          THEN TargetOfUnconnected(port_heap[a], port_heap'[a].target)
          ELSE port_heap'[a].target = port_heap[a].target

\* C4: the step that reads a net whose name starts with 'unconnected'
\* gives every port a node of the net resolves to the target 'false'
\* (boolean input), '0' (std_logic input), (others => '0') (any other
\* input) or 'open' (output, inout), leaves the target of every other port
\* and leaves the signal list.
C4_UnconnectedTargets ==
    [][nl_nets' # nl_nets /\ IsUnconnected(NetRead) => UnconnectedRead(NetRead)]_vars

\* the net read last is 'unconnected' and has given a vector input its
\* aggregate and an output 'open'
C4_Witness ==
    /\ nl_nets # <<>>
    /\ IsUnconnected(nl_nets[Len(nl_nets)])
    /\ \E a \in InstancePorts :
          /\ ResolvedBy(nl_nets[Len(nl_nets)], a)
          /\ port_heap[a].dirstr = s_in
          /\ port_heap[a].target = s_others0
    /\ \E a \in InstancePorts :
          /\ ResolvedBy(nl_nets[Len(nl_nets)], a)
          /\ port_heap[a].dirstr = s_out
          /\ port_heap[a].target = s_open

\* the step that reads the direct-connect net
DirectRead(net) ==
    /\ \E k \in TableNodes(net) : name' = direct_connects[net.nodes[k].ref]
    /\ signal_list' = signal_list
    /\ \A a \in DOMAIN port_heap :
          ResolvedBy(net, a) => port_heap'[a].target = name'

\* C5: the step that reads a net whose name does not start with
\* 'unconnected' and that has a node whose reference is in the
\* direct-connect table sets the name to the name registered for such a
\* reference, appends nothing to the signal list and gives every port a
\* node of the net resolves to that name as target.
C5_DirectConnectRenames ==
    [][/\ nl_nets' # nl_nets
       /\ ~IsUnconnected(NetRead)
       /\ TableNodes(NetRead) # {}
       => DirectRead(NetRead)]_vars

\* the net read last is a direct-connect net, and a port one of its nodes
\* resolves to has the registered name, which is not the name the net's
\* label gives
C5_Witness ==
    /\ nl_nets # <<>>
    /\ ~IsUnconnected(nl_nets[Len(nl_nets)])
    /\ TableNodes(nl_nets[Len(nl_nets)]) # {}
    /\ skip
    /\ name # SignalName(nl_nets[Len(nl_nets)].name)
    /\ \E a \in InstancePorts :
          ResolvedBy(nl_nets[Len(nl_nets)], a) /\ port_heap[a].target = name

(***************************************************************************)
(* Properties of the decoder.                                              *)
(***************************************************************************)
\* family(H downto L)
RangeType(family, H, L) ==
    family \o <<"(">> \o IntToStr(H) \o s_downto \o IntToStr(L) \o <<")">>

\* the port decoded from a range H:L as the given type
DecodedAs(port, nm, vhdl_type, H, L) ==
    /\ port.name = nm
    /\ port.vhdl_type = RangeType(vhdl_type, H, L)
    /\ port.high = IntToStr(H)
    /\ port.low = IntToStr(L)

\* C6: a name x(H:L) with integers H >= L decodes, with and without
\* evaluation, to the name x, high H, low L, the type
\* std_logic_vector(H downto L) and the length H - L + 1 as an integer.
C6_RangeLength ==
    \A id \in Idents : \A H \in Bounds : \A L \in Bounds :
       H >= L /\ dname = Hinted(id, RangeHint(s_empty, H, L)) /\ dpc = "decoded"
          => /\ DecodedAs(dport, id, s_slv, H, L)
             /\ dport.length = IntToStr(H - L + 1)

\* C7: a length that is an integer is a positive one.
C7_LengthPositive ==
    dpc \in {"decoded", "redecoded"} /\ StrToInt(dport.length).ok
       => StrToInt(dport.length).v > 0

\* the vector type of a prefix of a range hint
FamilyType(prefix) ==
    CASE prefix = s_u -> s_unsigned
      [] prefix = s_uf -> s_ufixed
      [] prefix = s_s -> s_signed
      [] prefix = s_sf -> s_sfixed
      [] prefix = s_empty -> s_slv

\* C8: the hint b decodes to boolean of length 1; the hint integer to
\* integer with high 31, low 0 and length 32; a range hint H:L behind the
\* prefix u, uf, s or sf to unsigned, ufixed, signed or sfixed over
\* (H downto L), with high H and low L; a range hint without a prefix to
\* std_logic_vector over (H downto L); none of them raises.
C8_HintFamilies ==
    /\ \A id \in Idents :
          dname = Hinted(id, s_b) /\ dpc # "start"
             => /\ dpc # "raised"
                /\ dport.vhdl_type = s_boolean
                /\ dport.length = s_1
    /\ \A id \in Idents :
          dname = Hinted(id, s_integer) /\ dpc # "start"
             => /\ dpc # "raised"
                /\ dport.vhdl_type = s_integer
                /\ dport.high = s_31
                /\ dport.low = s_0
                /\ dport.length = s_32
    /\ \A id \in Idents : \A prefix \in FamilyPrefixes \cup {s_empty} :
          \A H \in Bounds : \A L \in Bounds :
             dname = Hinted(id, RangeHint(prefix, H, L)) /\ dpc # "start"
                => /\ dpc # "raised"
                   /\ dpc = "decoded"
                         => DecodedAs(dport, id, FamilyType(prefix), H, L)

\* the name x(uf3:0) has been decoded to ufixed(3 downto 0)
C8_Witness ==
    /\ dpc = "decoded"
    /\ dname = Hinted(<<"x">>, RangeHint(s_uf, 3, 0))
    /\ dport.vhdl_type = RangeType(s_ufixed, 3, 0)

\* C9: a name x(TYPENAME H:L) decodes to the type TYPENAME(H downto L),
\* whatever TYPENAME begins with.
C9_NamedType ==
    \A id \in Idents : \A tn \in TypeNames : \A H \in Bounds : \A L \in Bounds :
       dname = Hinted(id, RangeHint(tn \o s_blank, H, L)) /\ dpc = "decoded"
          => dport.vhdl_type = RangeType(tn, H, L)

\* C10: a name that does not end with ')' decodes without raising to
\* std_logic with high 0, low 0 and length 1 and keeps its name, and
\* decoding the result again gives the same.
C10_SingleBitDefault ==
    (dname = <<>> \/ dname[Len(dname)] # ")") /\ dpc # "start"
       => /\ dpc \in {"decoded", "redecoded"}
          /\ dport.name = dname
          /\ dport.vhdl_type = s_std_logic
          /\ dport.high = s_0
          /\ dport.low = s_0
          /\ dport.length = s_1

\* the name x(3:0, whose hint is not closed, has been decoded twice
C10_Witness ==
    /\ dpc = "redecoded"
    /\ dname = <<"x", "(", "3", ":", "0">>
    /\ dport.vhdl_type = s_std_logic

(***************************************************************************)
(* Properties of the evaluator.                                            *)
(***************************************************************************)
\* the integer-typed generics named tok whose value is an integer
KnownIntegers(tok, gens) ==
    {i \in DOMAIN gens : /\ gens[i].name = tok
                         /\ gens[i].typestr = s_integer
                         /\ StrToInt(gens[i].value).ok}

\* a token as an operand: a name stands for the value of its generic
Operand(tok, gens) ==
    IF KnownIntegers(tok, gens) = {} THEN tok
    ELSE <<"(">> \o IntToStr(StrToInt(gens[SetMin(KnownIntegers(tok, gens))].value).v)
         \o <<")">>

\* the value of the expression with every name replaced, token by token,
\* by its generic's value; a quotient that is not exact is cut to an
\* integer at the end, as int() cuts it
ArithmeticValue(tokens, gens) ==
    IntOf(Eval(Flatten([k \in DOMAIN tokens |-> Operand(tokens[k], gens)])))

\* every name of the expression is an integer generic of the list, and the
\* expression has a value
Resolvable(tokens, gens) ==
    /\ \A k \in DOMAIN tokens :
          HasNonArith(tokens[k]) => KnownIntegers(tokens[k], gens) # {}
    /\ ArithmeticValue(tokens, gens).k = "int"

\* C11: for a width expression of integer literals, + - * /, brackets and
\* names of integer generics with integer values, parse_portsize_part
\* returns the integer that is the value of the expression with each name
\* replaced by its generic's value as an operand.
C11_EvaluatorCorrect ==
    epc \in {"parsed", "raised"} /\ Resolvable(etokens, egens)
       => /\ epc = "parsed"
          /\ eresult = ArithmeticValue(etokens, egens)

\* the generics of the list whose type is integer, in list order
IntegerTyped(gens) == SelectSeq(gens, LAMBDA g : g.typestr = s_integer)

\* the list without its j-th entry
Without(gens, j) == SubSeq(gens, 1, j - 1) \o SubSeq(gens, j + 1, Len(gens))

\* the integer-typed entries whose name occurs in size_part
Occurring(size_part, gens) ==
    {i \in DOMAIN gens : /\ gens[i].typestr = s_integer
                         /\ Contains(size_part, gens[i].name)}

\* entry i is the first the loop applies, and every occurrence of entry
\* j's name holds an occurrence of entry i's name
Shadows(size_part, gens, i, j) ==
    /\ i < j
    /\ Occurring(size_part, gens) # {}
    /\ i = SetMin(Occurring(size_part, gens))
    /\ gens[j].typestr = s_integer
    /\ Contains(gens[j].name, gens[i].name)

\* the token is the name of a generic of another type only, and holds the
\* name of no integer-typed generic
OtherTypeOnly(tok, gens) ==
    /\ \E i \in DOMAIN gens : gens[i].name = tok
    /\ \A i \in DOMAIN gens :
          gens[i].typestr = s_integer => ~Contains(tok, gens[i].name)

\* C12: only integer-typed generics are substituted, a generic of another
\* type is never substituted even if its name occurs in the expression;
\* generics are applied in list order, so where two entries could match
\* the same occurrence the earlier one determines the substituted value.
C12_IntegerTypedInListOrder ==
    epc \in {"parsed", "raised"}
       => /\ eresult = parse_portsize_part(PyStr(esize), IntegerTyped(egens))
          /\ \A k \in DOMAIN etokens :
                OtherTypeOnly(etokens[k], egens)
                   => /\ eresult.k = "str"
                      /\ Contains(eresult.s, etokens[k])
          /\ \A i \in DOMAIN egens : \A j \in DOMAIN egens :
                Shadows(esize, egens, i, j)
                   => eresult = parse_portsize_part(PyStr(esize), Without(egens, j))

\* DW-W has been evaluated with DW listed twice, as 8 and as 3, and W once,
\* as 2: the result is 6
C12_Witness ==
    /\ epc = "parsed"
    /\ etokens = <<s_DW, <<"-">>, s_W>>
    /\ Len(egens) = 3
    /\ egens[1].value = s_8
    /\ egens[2].value = s_3
    /\ eresult = PyInt(6)

(***************************************************************************)
(* Properties of the decoder and the evaluator together.                   *)
(***************************************************************************)
\* the bound expressions of a name with a range hint
BoundsOf(nm) == RangeParts(HintFamily(NameMatch(nm).parts[2]).typestr)

\* the name carries a range hint, one that is neither b nor integer
HasRangeHint(nm) ==
    /\ NameMatch(nm).matched
    /\ NameMatch(nm).parts[2] \notin {s_b, s_integer}

\* the evaluator returns the bound expression as a string
Unresolvable(bound, gens) ==
    /\ bound.k = "str"
    /\ parse_portsize_part(bound, gens).k = "str"

\* the port carries the two evaluated bounds in symbolic form
Symbolic(port, vhdl_type, high, low) ==
    /\ port.length = ToStr(high) \o <<"-">> \o ToStr(low)
    /\ port.high = ToStr(high)
    /\ port.low = ToStr(low)
    /\ port.vhdl_type = vhdl_type \o <<"(">> \o ToStr(high) \o s_downto
                        \o ToStr(low) \o <<")">>

\* C13: when a bound expression of a port's hint cannot be reduced to an
\* integer, the evaluator returns the (partially substituted) string
\* without raising, the port's length becomes the string HIGH-LOW and the
\* bound text stands in the port's type (HIGH downto LOW).
C13_UnresolvedIsSymbolic ==
    /\ dpc \in {"decoded", "redecoded", "raised"}
    /\ deval
    /\ HasRangeHint(dname)
    /\ \/ Unresolvable(BoundsOf(dname).high_str, dgens)
       \/ Unresolvable(BoundsOf(dname).low_str, dgens)
    => /\ dpc # "raised"
       /\ dpc = "decoded"
             => Symbolic(dport,
                         HintFamily(NameMatch(dname).parts[2]).vhdl_type,
                         parse_portsize_part(BoundsOf(dname).high_str, dgens),
                         parse_portsize_part(BoundsOf(dname).low_str, dgens))

(***************************************************************************)
(* Properties of generate_code as a whole.                                 *)
(***************************************************************************)
\* C14: for every structurally valid document, whatever its port-name
\* hints, property values, width expressions and nets, generation runs
\* through the builder, net consolidation and dependency inference to
\* completion: no exception leaves generate_code.
C14_NothingFatal == pc # "raised"

\* the element a list got last
Latest(list) == list[Len(list)]

\* the node's reference is that of no instance, or no port of the
\* instance has the node's pin number
Miss(node) == \A a \in InstancePorts : ~Resolves(node, a)

\* the type of the first Connection of sig that has a port, the empty
\* string when none has
FirstPortType(heap, sig, k) ==
    IF k = 0 THEN s_empty ELSE heap[sig.connections[k].port].vhdl_type

\* what the step that reads net makes of the nodes that miss
MissesRecovered(net, sig) ==
    /\ pc' = "nets"
    /\ \A a \in InstancePorts : ~ResolvedBy(net, a) => port_heap'[a] = port_heap[a]
    /\ ~IsUnconnected(net) =>
          /\ SignalOf(sig, net)
          /\ \A k \in DOMAIN net.nodes : Miss(net.nodes[k]) => sig.connections[k].port = 0
          /\ sig.vhdl_type =
                FirstPortType(port_heap, sig,
                              FirstOf({k \in DOMAIN net.nodes : ~Miss(net.nodes[k])}))

\* the part of comp is no pseudo part and has no definition
Undefined(comp) ==
    /\ comp.part \notin PseudoParts
    /\ \A d \in DOMAIN component_list : component_list[d].name # comp.part

\* C15: a net node whose reference matches no instance, or whose pin
\* matches no port of the instance, still yields a Connection, one without
\* port; it changes no port's target, adds nothing to the Signal's type and
\* does not stop the remaining nodes and nets.  An instance whose part has
\* no definition is still appended to instance_list, without ports and
\* without component.
C15_LookupMissesRecovered ==
    [][/\ nl_nets' # nl_nets => MissesRecovered(NetRead, signal')
       /\ pc = "components" /\ idx' = idx + 1 /\ Undefined(nl_components[idx])
             => /\ pc' = "components"
                /\ Len(instance_list') = Len(instance_list) + 1
                /\ Latest(instance_list').instance_name = nl_components[idx].ref
                /\ Latest(instance_list').name = nl_components[idx].part
                /\ Latest(instance_list').ports = <<>>
                /\ Latest(instance_list').component = 0]_vars

\* an instance of a part without definition stands in instance_list, and
\* the last net read has a node of an unknown reference before a node that
\* resolves: the Signal has a Connection without port and the port's type
C15_Witness ==
    /\ pc = "nets"
    /\ \E i \in DOMAIN instance_list :
          instance_list[i].ports = <<>> /\ instance_list[i].component = 0
    /\ nl_nets # <<>>
    /\ Len(signal.connections) = 2
    /\ Miss(Latest(nl_nets).nodes[1])
    /\ Latest(nl_nets).nodes[1].ref \notin DOMAIN direct_connects
    /\ signal.connections[1].port = 0
    /\ signal.connections[2].port # 0
    /\ signal.vhdl_type # s_empty

\* both loops over nl.components have ended
ComponentsBuilt ==
    pc \in {"generics", "definitions", "nets", "libraries", "separators", "done"}

\* the direct-connect table holds for comp the name of the generic, the
\* constant or the top-level port made of it
Registered(comp) ==
    /\ comp.ref \in DOMAIN direct_connects
    /\ comp.part = s_PARAMETER
          => /\ direct_connects[comp.ref] = comp.value
             /\ \E g \in DOMAIN generic_list : generic_list[g].name = comp.value
    /\ comp.part = s_CONSTANT
          => /\ direct_connects[comp.ref]
                    = find_property(comp.properties, s_NAME, s_ERROR_NO_NAME)
             /\ \E g \in DOMAIN constant_list :
                   constant_list[g].name = direct_connects[comp.ref]
    /\ comp.part \in {s_IN, s_OUT, s_INOUT}
          => \E q \in DOMAIN port_list :
                /\ port_list[q].name = direct_connects[comp.ref]
                /\ port_list[q].dirstr = Lower(comp.part)
                /\ StartsWith(comp.value, port_list[q].name)

\* C16: a component of part PARAMETER, CONSTANT, IN, OUT or INOUT is never
\* in instance_list and a library part of such a name never in
\* component_list; once the component loops have ended the reference of
\* every such component is a key of direct_connects, mapped to the name of
\* the generic, constant or port made of it; the reference of no instance
\* is a key of the table.
C16_PseudoComponents ==
    /\ \A c \in DOMAIN nl_components :
          nl_components[c].part \in PseudoParts
             => /\ \A i \in DOMAIN instance_list :
                      instance_list[i].instance_name # nl_components[c].ref
                /\ ComponentsBuilt => Registered(nl_components[c])
    /\ \A d \in DOMAIN component_list : component_list[d].name \notin PseudoParts
    /\ \A i \in DOMAIN instance_list :
          /\ instance_list[i].name \notin PseudoParts
          /\ instance_list[i].instance_name \notin DOMAIN direct_connects

\* generation has ended for a document with a PARAMETER part, a PARAMETER
\* component, an OUT component and two instances
C16_Witness ==
    /\ pc = "done"
    /\ \E l \in DOMAIN nl_libparts : nl_libparts[l].part = s_PARAMETER
    /\ \E c \in DOMAIN nl_components : nl_components[c].part = s_PARAMETER
    /\ \E c \in DOMAIN nl_components :
          /\ nl_components[c].part = s_OUT
          /\ direct_connects[nl_components[c].ref] = <<"d", "o", "u", "t">>
    /\ Len(instance_list) = 2
    /\ Len(component_list) = 1

IsBoundary(comp) == comp.part \in {s_IN, s_OUT, s_INOUT}

\* the IN, OUT and INOUT components of the document, in document order
BoundaryComponents == SelectSeq(nl_components, IsBoundary)

\* C17: every IN, OUT or INOUT component becomes one top-level Port, whose
\* name is the component's value, whose direction is the part name in
\* lower case and whose resolved type is that of its TYPE property, the
\* single-bit type std_logic when it has none.
C17_BoundaryPorts ==
    ComponentsBuilt
       => /\ Len(port_list) = Len(BoundaryComponents)
          /\ \A q \in DOMAIN port_list :
                /\ port_list[q].name = BoundaryComponents[q].value
                /\ port_list[q].dirstr = Lower(BoundaryComponents[q].part)
                /\ port_list[q].vhdl_type =
                       find_property(BoundaryComponents[q].properties, s_TYPE,
                                     s_std_logic)

\* the net codes of a list of nets or of signals
Codes(list) == [k \in DOMAIN list |-> list[k].code]

\* the step leaves the signal list alone or appends the Signal of the net
\* it reads, an ordinary one
AppendsOnly(net) ==
    \/ signal_list' = signal_list
    \/ /\ nl_nets' # nl_nets
       /\ IsOrdinary(net)
       /\ Len(signal_list') = Len(signal_list) + 1
       /\ SubSeq(signal_list', 1, Len(signal_list)) = signal_list
       /\ Latest(signal_list').code = net.code

\* C18: at every point of net processing the net codes of signal_list are
\* those of the nets read so far that are neither 'unconnected' nor
\* direct-connect, in source order; the list is never reordered and no
\* entry is ever removed.
C18_SignalsInNetOrder ==
    [][/\ AppendsOnly(NetRead)
       /\ Codes(signal_list') = Codes(OrdinaryNets')]_vars

\* two Signals stand in signal_list, the first with the greater net code
C18_Witness ==
    /\ Len(signal_list) = 2
    /\ Len(nl_nets) = 2
    /\ StrToInt(signal_list[1].code).v > StrToInt(signal_list[2].code).v

\* the resolved types the dependency scan reads: those of the generics,
\* the top-level ports and the constants, and those of the properties and
\* ports of the definitions and the instances
ScannedTypes ==
    {generic_list[k].vhdl_type : k \in DOMAIN generic_list}
    \cup {port_list[k].vhdl_type : k \in DOMAIN port_list}
    \cup {constant_list[k].vhdl_type : k \in DOMAIN constant_list}
    \cup UNION {{component_list[d].properties[k].vhdl_type :
                    k \in DOMAIN component_list[d].properties}
                \cup {port_heap[component_list[d].ports[m]].vhdl_type :
                         m \in DOMAIN component_list[d].ports} :
                d \in DOMAIN component_list}
    \cup UNION {{instance_list[i].properties[k].vhdl_type :
                    k \in DOMAIN instance_list[i].properties}
                \cup {port_heap[instance_list[i].ports[m]].vhdl_type :
                         m \in DOMAIN instance_list[i].ports} :
                i \in DOMAIN instance_list}

\* some scanned type is of one of the two families
SomeOf(family1, family2) ==
    \E ty \in ScannedTypes : StartsWith(ty, family1) \/ StartsWith(ty, family2)

\* lib is an entry of the library list
Listed(lib) == \E k \in DOMAIN library_list : library_list[k] = lib

\* C19: the inferred library list has the std_logic_1164 reference first,
\* the numeric_std reference exactly when a scanned type is of the
\* unsigned or signed family and the fixed_pkg reference exactly when a
\* scanned type is sfixed or ufixed, and no reference twice, however many
\* items have such a type.
C19_LibraryList ==
    pc \in {"separators", "done"}
       => /\ library_list # <<>>
          /\ library_list[1] = s_lib_1164
          /\ \A k \in DOMAIN library_list :
                library_list[k] \in {s_lib_1164, s_lib_numeric, s_lib_fixed}
          /\ Listed(s_lib_numeric) <=> SomeOf(s_unsigned, s_signed)
          /\ Listed(s_lib_fixed) <=> SomeOf(s_sfixed, s_ufixed)
          /\ \A k \in DOMAIN library_list : \A m \in DOMAIN library_list :
                library_list[k] = library_list[m] => k = m

\* the libraries are inferred for a document with three ports of an
\* unsigned type and none of a fixed-point type: numeric_std stands once
C19_Witness ==
    /\ pc = "done"
    /\ library_list = <<s_lib_1164, s_lib_numeric>>
    /\ Cardinality({a \in DOMAIN port_heap :
                       StartsWith(port_heap[a].vhdl_type, s_unsigned)}) >= 3

(***************************************************************************)
(* Properties of align_on_pipe.                                            *)
(***************************************************************************)
\* the number of '|' delimiters of a line
Pipes(line) == Cardinality({i \in DOMAIN line : line[i] = "|"})

\* the lines of the run of line i: the lines joined to line i by
\* consecutive lines that all have as many delimiters as line i
RunOf(lines, i) ==
    {k \in DOMAIN lines :
        \A m \in DOMAIN lines :
           (i <= m /\ m <= k) \/ (k <= m /\ m <= i)
              => Pipes(lines[m]) = Pipes(lines[i])}

\* the greatest width column j has in the run of line i
RunWidth(lines, i, j) ==
    SetMax({Len(PipeSplit(lines[k])[j]) : k \in RunOf(lines, i)})

\* a part followed by the blanks that fill it to width
Filled(part, width) == part \o [k \in 1..(width - Len(part)) |-> " "]

\* line i with every column filled to its width in the run
AlignedLine(lines, i) ==
    Flatten([j \in 1..(Pipes(lines[i]) + 1) |->
                Filled(PipeSplit(lines[i])[j], RunWidth(lines, i, j))])

\* out is the text of the lines, each aligned within its run
AlignedText(lines, out) ==
    IF lines = <<>> THEN out = <<>>
    ELSE Split(out, "\n") = [i \in DOMAIN lines |-> AlignedLine(lines, i)]

\* C20: align_on_pipe cuts the text into the maximal runs of consecutive
\* lines with the same number of '|' delimiters and fills every column of
\* every line to the greatest width the column has in the run of the line,
\* lines of other runs having no influence; for the run a|bb|c, aaa|b|cc
\* the columns have the widths 3, 2, 2 on both lines.
C20_ColumnAlignment ==
    apc = "aligned"
       => /\ AlignedText(SplitLines(adoc), aout)
          /\ adoc = JoinLines(<<l_abc, l_aaabcc>>)
                => /\ RunWidth(SplitLines(adoc), 1, 1) = 3
                   /\ RunWidth(SplitLines(adoc), 1, 2) = 2
                   /\ RunWidth(SplitLines(adoc), 1, 3) = 2
                   /\ \A ln \in 1..2 : Len(Split(aout, "\n")[ln]) = 3 + 2 + 2

\* the text a|bb|c, aaa|b|cc, x has been aligned: the two lines of the run
\* have columns of width 3, 2, 2 and the line x is as it was
C20_Witness ==
    /\ apc = "aligned"
    /\ adoc = JoinLines(<<l_abc, l_aaabcc, <<"x">>>>)
    /\ aout = <<"a", " ", " ", "b", "b", "c", " ", "\n",
                "a", "a", "a", "b", " ", "c", "c", "\n", "x">>

OwnPorts ==
    /\ \A i \in DOMAIN instance_list, j \in DOMAIN instance_list :
          \A m \in DOMAIN instance_list[i].ports,
             n \in DOMAIN instance_list[j].ports :
             (i # j \/ m # n) =>
                instance_list[i].ports[m] # instance_list[j].ports[n]
    /\ \A i \in DOMAIN instance_list, d \in DOMAIN component_list :
          \A m \in DOMAIN instance_list[i].ports,
             n \in DOMAIN component_list[d].ports :
             instance_list[i].ports[m] # component_list[d].ports[n]

\* the k-th instance holds the Port object at address a
Holds(k, a) ==
    \E m \in DOMAIN instance_list[k].ports : instance_list[k].ports[m] = a

\* reading net changes the Port objects of the instances its nodes name at
\* the pins they name, and no other Port object
TargetFrame(net) ==
    \A a \in DOMAIN port_heap :
       port_heap'[a] # port_heap[a] =>
          \E k \in DOMAIN instance_list, n \in DOMAIN net.nodes :
             /\ instance_list[k].instance_name = net.nodes[n].ref
             /\ Holds(k, a)
             /\ port_heap[a].num = net.nodes[n].pin

\* the pin numbers of a list of ports, in order
PinsOf(heap, ports) == [m \in DOMAIN ports |-> heap[ports[m]].num]

\* every instance with a component has the pin numbers of that component
SamePorts ==
    \A i \in DOMAIN instance_list :
       instance_list[i].component # 0 =>
          PinsOf(port_heap, instance_list[i].ports)
             = PinsOf(port_heap,
                      component_list[instance_list[i].component].ports)

\* C22: the ports of an instance are objects of its own, shared with no
\* other instance and no component definition; reading a net changes only
\* the ports its nodes name, on the instances they name; an instance whose
\* component was found has as many ports as the component, with the same
\* pin numbers in the same order
C22_IndependentCopies ==
    [][/\ OwnPorts'
       /\ (nl_nets' # nl_nets /\ pc = "nets")
             => TargetFrame(nl_nets'[Len(nl_nets')])
       /\ SamePorts']_vars

\* the first two parts of C22 on their own
C22_OwnedAndFramed ==
    [][/\ OwnPorts'
       /\ (nl_nets' # nl_nets /\ pc = "nets")
             => TargetFrame(nl_nets'[Len(nl_nets')])]_vars
(***************************************************************************)
(* The type of a signal                                                    *)
(***************************************************************************)
\* the positions of the connections whose port was resolved and has a type
TypedConnections(heap, connections) ==
    {k \in DOMAIN connections :
        /\ connections[k].port # 0
        /\ heap[connections[k].port].vhdl_type # s_empty}

\* the type of the port of the k-th connection, the empty string for k = 0
TypeAt(heap, connections, k) ==
    IF k = 0 THEN s_empty ELSE heap[connections[k].port].vhdl_type

\* sig has the type of its first connection with a typed port
FirstTyped(heap, sig) ==
    sig.vhdl_type
       = TypeAt(heap, sig.connections,
                FirstOf(TypedConnections(heap, sig.connections)))

\* two connections of sig have ports of different types
Mismatched(heap, sig) ==
    \E j \in TypedConnections(heap, sig.connections),
       k \in TypedConnections(heap, sig.connections) :
       TypeAt(heap, sig.connections, j) # TypeAt(heap, sig.connections, k)

\* C23: every signal of signal_list has the type of its first connection,
\* in node order, whose port was resolved and has a type; a net whose
\* connections have ports of different types is read without leaving the
\* net loop, its signal has the type of the first such connection, and the
\* signal is appended to signal_list unless the net is a direct connection
C23_FirstConnectionTypes ==
    [][/\ \A i \in DOMAIN signal_list' : FirstTyped(port_heap', signal_list'[i])
       /\ (/\ pc = "nets"
           /\ nl_nets' # nl_nets
           /\ ~IsUnconnected(nl_nets'[Len(nl_nets')])
           /\ Mismatched(port_heap', signal'))
          => /\ pc' = "nets"
             /\ FirstTyped(port_heap', signal')
             /\ ~skip' => signal_list' = Append(signal_list, signal')]_vars

\* generate_code has ended with a signal in the list whose two connections
\* have ports of different types
C23_Witness ==
    /\ pc = "done"
    /\ \E i \in DOMAIN signal_list :
          /\ Mismatched(port_heap, signal_list[i])
          /\ FirstTyped(port_heap, signal_list[i])
(***************************************************************************)
(* Separators                                                              *)
(***************************************************************************)
\* the last element of items has mark for semicolon and comma, every other
\* element ';' and ','
Marked(items, mark) ==
    \A k \in DOMAIN items :
       /\ items[k].semicolon = (IF k = Len(items) THEN mark ELSE s_semi)
       /\ items[k].comma = (IF k = Len(items) THEN mark ELSE s_comma)

\* the Port objects of a list of ports
PortsOf(heap, ports) == [m \in DOMAIN ports |-> heap[ports[m]]]

\* the lists handed to the template are marked with mark: the generics, the
\* top-level ports, and the properties and ports of every definition and
\* instance
AllMarked(mark) ==
    /\ Marked(generic_list, mark)
    /\ Marked(port_list, mark)
    /\ \A k \in DOMAIN component_list :
          /\ Marked(component_list[k].properties, mark)
          /\ Marked(PortsOf(port_heap, component_list[k].ports), mark)
    /\ \A k \in DOMAIN instance_list :
          /\ Marked(instance_list[k].properties, mark)
          /\ Marked(PortsOf(port_heap, instance_list[k].ports), mark)

\* C24 as stated: when generate_code has ended, in each list handed to the
\* template the last element has the empty string for semicolon and comma
\* and every other element ';' and ','
C24_LastSeparatorEmpty == pc = "done" => AllMarked(s_empty)

\* C24: when generate_code has ended, in each list handed to the template
\* the last element has a single space for semicolon and comma and every
\* other element ';' and ','; an empty list is passed over
C24_LastSeparatorBlank == pc = "done" => AllMarked(s_blank)

\* generate_code has ended with an empty generic list, an instance without
\* properties and an instance of two ports, the first with ';' and ','
C24_Witness ==
    /\ pc = "done"
    /\ generic_list = <<>>
    /\ port_list # <<>>
    /\ \E k \in DOMAIN instance_list :
          /\ instance_list[k].properties = <<>>
          /\ Len(instance_list[k].ports) = 2
          /\ port_heap[instance_list[k].ports[1]].semicolon = s_semi
          /\ port_heap[instance_list[k].ports[2]].comma = s_blank
(***************************************************************************)
(* Several direct connections on one net                                   *)
(***************************************************************************)
\* the step that reads a net with the nodes at positions ks in the table:
\* the name registered for the first of them is the name of the net and the
\* target of every port a node of the net resolves to
FirstAliasRead(net, ks) ==
    /\ name' = direct_connects[net.nodes[SetMin(ks)].ref]
    /\ skip'
    /\ signal_list' = signal_list
    /\ \A a \in DOMAIN port_heap :
          ResolvedBy(net, a) => port_heap'[a].target = name'

\* C25: the step that reads a net whose name does not start with
\* 'unconnected' and that has two or more nodes whose reference is in the
\* direct-connect table names the net as registered for the first of these
\* nodes in node order, and gives every port a node of the net resolves to
\* that one name as target
C25_FirstAliasWins ==
    [][/\ pc = "nets"
       /\ nl_nets' # nl_nets
       /\ ~IsUnconnected(NetRead)
       /\ Cardinality(TableNodes(NetRead)) > 1
       => FirstAliasRead(NetRead, TableNodes(NetRead))]_vars

\* the net read last has two nodes in the table with different names
\* registered, the later of them before a node that resolves to a port, and
\* the port has the name of the first as target
C25_Witness ==
    /\ pc = "nets"
    /\ nl_nets # <<>>
    /\ skip
    /\ \E j \in TableNodes(nl_nets[Len(nl_nets)]),
          k \in TableNodes(nl_nets[Len(nl_nets)]) :
          /\ j < k
          /\ direct_connects[nl_nets[Len(nl_nets)].nodes[j].ref]
                # direct_connects[nl_nets[Len(nl_nets)].nodes[k].ref]
          /\ name = direct_connects[nl_nets[Len(nl_nets)].nodes[j].ref]
          /\ k < Len(nl_nets[Len(nl_nets)].nodes)
    /\ \E a \in InstancePorts :
          ResolvedBy(nl_nets[Len(nl_nets)], a) /\ port_heap[a].target = name
(***************************************************************************)
(* Properties of the property loops                                        *)
(***************************************************************************)
\* the positions of the properties named tok
Named(overrides, tok) == {j \in DOMAIN overrides : overrides[j].name = tok}

RECURSIVE OverrideValue(_, _, _)
\* a token as an operand: the name of a property stands for the value of
\* that property, which is the token itself while the value is no integer
OverrideOperand(overrides, tok, r) ==
    IF r.k = "int" THEN <<"(">> \o IntToStr(r.v) \o <<")">> ELSE tok

\* the value of the i-th property: its expression with every name of a
\* property replaced by the value of that property as one operand, names
\* followed at most depth properties deep
OverrideValue(overrides, i, depth) ==
    IntOf(Eval(Flatten(
        [k \in DOMAIN overrides[i].tokens |->
            IF Named(overrides, overrides[i].tokens[k]) = {} \/ depth = 0
            THEN overrides[i].tokens[k]
            ELSE OverrideOperand(
                     overrides, overrides[i].tokens[k],
                     OverrideValue(overrides,
                                   SetMin(Named(overrides, overrides[i].tokens[k])),
                                   depth - 1))])))

\* the i-th property has ended as the decimal string of its value
ResolvedTo(i, r) ==
    r.k = "int" => opc = "resolved" /\ oprops[i].value = IntToStr(r.v)

\* C26: after the property loops, every property whose value is an integer
\* or an expression over the names of other properties whose values are
\* (through further names) integers has the decimal string of the integer
\* the expression has with each name replaced by the value of its property
\* as one operand, in every listing order
C26_OrderIndependent ==
    opc \in {"resolved", "raised"}
       => \A i \in DOMAIN otokens :
             ResolvedTo(i, OverrideValue(otokens, i, Len(otokens)))
(***************************************************************************)
(* The name of a decoded port                                              *)
(***************************************************************************)
\* C27: a name x(hint) whose hint is a range hint, b or integer decodes to
\* the name x, the bracketed hint removed
C27_BareName ==
    \A id \in Idents : \A h \in IntRangeHints \cup SymbolicHints \cup WordHints :
       dname = Hinted(id, h) /\ dpc = "decoded" => dport.name = id
====
